---- MODULE Spec2Model ----
(***************************************************************************)
(* Craft: the per-project ledger (meta/run.json), the DIB / PSPEC revision *)
(* files, the approval pointer, and the PSPEC -> Onshape variable mapping. *)
(*                                                                         *)
(* JSON values are held as records [k, n, s]: k is the JavaScript kind,    *)
(* n the number in hundredths (100.4 is 10040), s the string.              *)
(***************************************************************************)
EXTENDS Integers, Sequences, FiniteSets, TLC

VARIABLES
    clock,        \* the wall clock read by new Date()
    crgFiles,     \* crg/<original file name>
    draft,        \* dib/draft.json
    meta,         \* meta/run.json, the ledger
    dibLatest,    \* dib/dib.json
    dibRev,       \* dib/rev-NNNN/dib.json
    pspecLatest,  \* pspec/pspec.json
    pspecRev,     \* pspec/rev-NNNN/pspec.json
    cad,          \* revisions/rev-NNNN/cad/onshape.{variables,provenance}.json
    runs,         \* revisions/rev-NNNN/cad/onshape.run.json
    runArchive,   \* revisions/rev-NNNN/cad/onshape.run.<timestamp>.json
    last,         \* the response of the request handled last
    procs,        \* requests in flight (interleaved specification only)
    mapIn,        \* the PSPEC handed to the mapper or to the manufacturability validator
    mapOut,       \* the mapper's result for mapIn
    mfgOut,       \* validatePspecManufacturability's result for mapIn
    client,       \* one OnshapeClient.request call: its position, credentials and traffic
    oauth,        \* _auth/onshape.state.json, _auth/onshape.json and the callbacks in flight
    overlap       \* history: two requests have been in flight together (interleaved specification only)

vars == << clock, crgFiles, draft, meta, dibLatest, dibRev, pspecLatest, pspecRev, cad, runs,
           runArchive, last, procs, mapIn, mapOut, mfgOut, client, oauth, overlap >>

-----------------------------------------------------------------------------
(* JSON / JavaScript values *)

Num(x) == [k |-> "num", n |-> x, s |-> ""]
Str(x) == [k |-> "str", n |-> 0, s |-> x]
Bool(b) == [k |-> "bool", n |-> IF b THEN 1 ELSE 0, s |-> ""]
Undef == [k |-> "undef", n |-> 0, s |-> ""]
Null == [k |-> "null", n |-> 0, s |-> ""]
NaN == [k |-> "nan", n |-> 0, s |-> ""]

\* null, a missing file, an absent optional: the empty sequence; a value x: << x >>
Absent == << >>
Some(x) == << x >>

\* Number(s) for the strings the model uses
StrToNum(s) ==
    CASE s = "" -> Num(0)
      [] s = "300" -> Num(30000)
      [] s = "12" -> Num(1200)
      [] OTHER -> NaN

\* Number(v) / the ToNumber of an arithmetic operand
ToNumber(v) ==
    CASE v.k = "num" -> v
      [] v.k = "null" -> Num(0)
      [] v.k = "bool" -> Num(100 * v.n)
      [] v.k = "str" -> StrToNum(v.s)
      [] OTHER -> NaN

\* a - b
Sub(a, b) ==
    LET x == ToNumber(a)
        y == ToNumber(b)
    IN  IF x.k = "num" /\ y.k = "num" THEN Num(x.n - y.n) ELSE NaN

isFiniteNumber(v) == v.k = "num"

\* Number.isInteger on a number held in hundredths
IsIntegerHundredths(n) == n % 100 = 0

-----------------------------------------------------------------------------
(* cad/onshapeMapping.ts *)

ONSHAPE_TEMPLATE_CONTRACT_VERSION == "0.1.0"

\* Math.round: nearest integer, ties towards +Infinity
roundMmHalfDown(value) == (value + 49) \div 100
roundMm(value) == (value + 50) \div 100

intInRange(value, min, max) == value >= min /\ value <= max

MaterialTypeCodes ==
    [plywood |-> 0, mdf |-> 1, veneer_plywood |-> 2, other |-> 3]
VentDirCodes ==
    [front |-> 0, rear |-> 1, up |-> 2, left |-> 3, right |-> 4]

\* An enumCode that falls back to the first code of the table
enumCodeWithDefault(value, mapping) ==
    IF value.k = "str" /\ value.s \in DOMAIN mapping THEN Num(100 * mapping[value.s]) ELSE Num(0)

\* enumCode: the code of an own key of the table, else null
enumCode(value, mapping) ==
    IF value.k = "str" /\ value.s \in DOMAIN mapping THEN Num(100 * mapping[value.s]) ELSE Null

mmPos == [min |-> 1, max |-> 10000]
mmClr == [min |-> 0, max |-> 2000]

\* One row per addVar / addFlag / enumCode call, in the order the calls are made.
Row(var, unit, source, pspecPath, kind, range) ==
    [var |-> var, unit |-> unit, source |-> source, pspecPath |-> pspecPath,
     kind |-> kind, range |-> range]

SpeakerRows(side) ==
    << Row("SPK_" \o side \o "_W", "mm", "DIB", "/components/speakers/external_mm/width_mm", "mm", mmPos),
       Row("SPK_" \o side \o "_H", "mm", "DIB", "/components/speakers/external_mm/height_mm", "mm", mmPos),
       Row("SPK_" \o side \o "_D", "mm", "DIB", "/components/speakers/external_mm/depth_mm", "mm", mmPos),
       Row("SPK_" \o side \o "_CLR_L", "mm", "DERIVED", "/components/speakers/clearance_mm/left_mm", "mm", mmClr),
       Row("SPK_" \o side \o "_CLR_R", "mm", "DERIVED", "/components/speakers/clearance_mm/right_mm", "mm", mmClr),
       Row("SPK_" \o side \o "_CLR_T", "mm", "DERIVED", "/components/speakers/clearance_mm/top_mm", "mm", mmClr),
       Row("SPK_" \o side \o "_CLR_B", "mm", "DERIVED", "/components/speakers/clearance_mm/bottom_mm", "mm", mmClr),
       Row("SPK_" \o side \o "_CLR_F", "mm", "DERIVED", "/components/speakers/clearance_mm/front_mm", "mm", mmClr),
       Row("SPK_" \o side \o "_CLR_REAR", "mm", "DERIVED", "/components/speakers/clearance_mm/rear_mm", "mm", mmClr) >>

MappingRows ==
    << Row("OVERALL_W", "mm", "DIB", "/overall/width_mm", "mm", mmPos),
       Row("OVERALL_H", "mm", "DIB", "/overall/height_mm", "mm", mmPos),
       Row("OVERALL_D", "mm", "DIB", "/overall/depth_mm", "mm", mmPos),
       Row("OVERALL_BACK_CLEARANCE", "mm", "DIB", "/constraints/back_clearance_mm", "mm", mmClr),
       Row("OVERALL_AVAILABLE_DEPTH", "mm", "DERIVED",
           "DERIVED: /overall/depth_mm - /constraints/back_clearance_mm", "derived",
           [min |-> 1, max |-> 10000]),
       Row("MAT_THICKNESS", "mm", "DIB", "/material/thickness_mm", "mm", [min |-> 1, max |-> 2000]),
       Row("MAT_TYPE_CODE", "enum", "DIB", "/material/type", "material", [min |-> 0, max |-> 3]) >>
    \o SpeakerRows("L") \o SpeakerRows("R") \o
    << Row("TURNTABLE_W", "mm", "DIB", "/components/turntable/external_mm/width_mm", "mm", mmPos),
       Row("TURNTABLE_H", "mm", "DIB", "/components/turntable/external_mm/height_mm", "mm", mmPos),
       Row("TURNTABLE_D", "mm", "DIB", "/components/turntable/external_mm/depth_mm", "mm", mmPos),
       Row("TURNTABLE_CLR_L", "mm", "DEFAULT", "/components/turntable/clearance_mm/left_mm", "mm", mmClr),
       Row("TURNTABLE_CLR_R", "mm", "DEFAULT", "/components/turntable/clearance_mm/right_mm", "mm", mmClr),
       Row("TURNTABLE_CLR_T", "mm", "DEFAULT", "/components/turntable/clearance_mm/top_mm", "mm", mmClr),
       Row("TURNTABLE_CLR_B", "mm", "DEFAULT", "/components/turntable/clearance_mm/bottom_mm", "mm", mmClr),
       Row("TURNTABLE_CLR_F", "mm", "DEFAULT", "/components/turntable/clearance_mm/front_mm", "mm", mmClr),
       Row("TURNTABLE_CLR_REAR", "mm", "DEFAULT", "/components/turntable/clearance_mm/rear_mm", "mm", mmClr),
       Row("AMP_W", "mm", "DIB", "/components/amplifier/external_mm/width_mm", "mm", mmPos),
       Row("AMP_H", "mm", "DIB", "/components/amplifier/external_mm/height_mm", "mm", mmPos),
       Row("AMP_D", "mm", "DIB", "/components/amplifier/external_mm/depth_mm", "mm", mmPos),
       Row("AMP_CLR_L", "mm", "DERIVED", "/components/amplifier/clearance_mm/left_mm", "mm", mmClr),
       Row("AMP_CLR_R", "mm", "DERIVED", "/components/amplifier/clearance_mm/right_mm", "mm", mmClr),
       Row("AMP_CLR_T", "mm", "DERIVED", "/components/amplifier/clearance_mm/top_mm", "mm", mmClr),
       Row("AMP_CLR_B", "mm", "DERIVED", "/components/amplifier/clearance_mm/bottom_mm", "mm", mmClr),
       Row("AMP_CLR_F", "mm", "DERIVED", "/components/amplifier/clearance_mm/front_mm", "mm", mmClr),
       Row("AMP_CLR_REAR", "mm", "DERIVED", "/components/amplifier/clearance_mm/rear_mm", "mm", mmClr),
       Row("AMP_VENT_DIR_CODE", "enum", "DIB", "/components/amplifier/ventilation_direction", "vent",
           [min |-> 0, max |-> 4]),
       Row("DRAWER_COUNT", "count", "DIB", "/components/drawers/count", "plain", [min |-> 0, max |-> 6]),
       Row("DRAWER_LP_CAP_TARGET", "count", "DIB", "/components/drawers/lp_capacity_target", "plain",
           [min |-> 0, max |-> 3000]),
       Row("ACCESS_REAR_SERVICE_HATCH", "flag", "DIB", "/access/rear_service_hatch", "flag",
           [min |-> 0, max |-> 1]) >>

\* The variable names in the order of String.prototype.localeCompare
VarNameOrder ==
    << "ACCESS_REAR_SERVICE_HATCH",
       "AMP_CLR_B", "AMP_CLR_F", "AMP_CLR_L", "AMP_CLR_R", "AMP_CLR_REAR", "AMP_CLR_T",
       "AMP_D", "AMP_H", "AMP_VENT_DIR_CODE", "AMP_W",
       "DRAWER_COUNT", "DRAWER_LP_CAP_TARGET",
       "MAT_THICKNESS", "MAT_TYPE_CODE",
       "OVERALL_AVAILABLE_DEPTH", "OVERALL_BACK_CLEARANCE", "OVERALL_D", "OVERALL_H", "OVERALL_W",
       "SPK_L_CLR_B", "SPK_L_CLR_F", "SPK_L_CLR_L", "SPK_L_CLR_R", "SPK_L_CLR_REAR", "SPK_L_CLR_T",
       "SPK_L_D", "SPK_L_H", "SPK_L_W",
       "SPK_R_CLR_B", "SPK_R_CLR_F", "SPK_R_CLR_L", "SPK_R_CLR_R", "SPK_R_CLR_REAR", "SPK_R_CLR_T",
       "SPK_R_D", "SPK_R_H", "SPK_R_W",
       "TURNTABLE_CLR_B", "TURNTABLE_CLR_F", "TURNTABLE_CLR_L", "TURNTABLE_CLR_R",
       "TURNTABLE_CLR_REAR", "TURNTABLE_CLR_T",
       "TURNTABLE_D", "TURNTABLE_H", "TURNTABLE_W" >>

VarRank ==
    [name \in {VarNameOrder[i] : i \in 1..Len(VarNameOrder)} |->
        CHOOSE i \in 1..Len(VarNameOrder) : VarNameOrder[i] = name]

\* a.var.localeCompare(b.var) < 0
localeCompareLess(a, b) == VarRank[a] < VarRank[b]

\* The outcome of one addVar call: the value stored, or the error pushed.
MapError(code, row, n) ==
    [ok |-> FALSE, code |-> code, var |-> row.var, pspecPath |-> row.pspecPath, n |-> n]

\* An addVar that stores the value without the range check
addVarUnchecked(row, value, rounding) ==
    IF value.k \in {"undef", "null"} THEN MapError("MISSING_FIELD", row, 0)
    ELSE IF ~isFiniteNumber(value) THEN MapError("INVALID_VALUE", row, 0)
    ELSE IF ~rounding /\ ~IsIntegerHundredths(value.n) THEN MapError("INVALID_VALUE", row, 0)
    ELSE [ok |-> TRUE, n |-> IF rounding THEN roundMm(value.n) ELSE value.n \div 100]
addVar(row, value, rounding) ==
    IF value.k \in {"undef", "null"} THEN MapError("MISSING_FIELD", row, 0)
    ELSE IF ~isFiniteNumber(value) THEN MapError("INVALID_VALUE", row, 0)
    ELSE IF ~rounding /\ ~IsIntegerHundredths(value.n) THEN MapError("INVALID_VALUE", row, 0)
    ELSE LET n == IF rounding THEN roundMm(value.n) ELSE value.n \div 100
         IN  IF ~intInRange(n, row.range.min, row.range.max)
             THEN MapError("OUT_OF_RANGE", row, n)
             ELSE [ok |-> TRUE, n |-> n]

addFlag(row, value) ==
    IF value.k \in {"undef", "null"} THEN MapError("MISSING_FIELD", row, 0)
    ELSE IF value.k # "bool" THEN MapError("INVALID_VALUE", row, 0)
    ELSE [ok |-> TRUE, n |-> value.n]

\* What the mapper does for one row of the table, given the PSPEC's fields.
MapRow(f, row) ==
    CASE row.kind = "mm" -> addVar(row, f[row.pspecPath], TRUE)
      [] row.kind = "plain" -> addVar(row, f[row.pspecPath], FALSE)
      [] row.kind = "derived" ->
            addVar(row, Sub(f["/overall/depth_mm"], f["/constraints/back_clearance_mm"]), TRUE)
      [] row.kind = "material" ->
            LET c == enumCode(f[row.pspecPath], MaterialTypeCodes)
            IN  IF c = Null THEN MapError("INVALID_VALUE", row, 0) ELSE addVar(row, c, FALSE)
      [] row.kind = "vent" ->
            LET c == enumCode(f[row.pspecPath], VentDirCodes)
            IN  IF c = Null THEN MapError("INVALID_VALUE", row, 0) ELSE addVar(row, c, FALSE)
      [] row.kind = "flag" -> addFlag(row, f[row.pspecPath])


\* Array.prototype.sort((a, b) => a.var.localeCompare(b.var)): a stable sort
RECURSIVE InsertByVar(_, _)
InsertByVar(e, sorted) ==
    IF sorted = << >> THEN << e >>
    ELSE IF localeCompareLess(e.var, Head(sorted).var) THEN << e >> \o sorted
    ELSE << Head(sorted) >> \o InsertByVar(e, Tail(sorted))

RECURSIVE SortByVarFrom(_, _, _)
SortByVarFrom(list, i, sorted) ==
    IF i > Len(list) THEN sorted
    ELSE SortByVarFrom(list, i + 1, InsertByVar(list[i], sorted))

SortByVarSkipped(list) == list
SortByVar(list) == SortByVarFrom(list, 1, << >>)

EmptyAcc == [errors |-> << >>, variables |-> [x \in {} |-> 0], provenance |-> << >>]

\* The body of mapPspecToOnshapeVariables up to the final test of errors.length
RECURSIVE MapRowsFrom(_, _, _, _)
MapRowsFrom(f, rows, i, acc) ==
    IF i > Len(rows) THEN acc
    ELSE LET row == rows[i]
             r == MapRow(f, row)
         IN  MapRowsFrom(f, rows, i + 1,
                IF r.ok
                THEN [acc EXCEPT !.variables = (row.var :> r.n) @@ acc.variables,
                                 !.provenance = Append(acc.provenance,
                                     [var |-> row.var, value |-> r.n, unit |-> row.unit,
                                      source |-> row.source, pspecPath |-> row.pspecPath])]
                ELSE [acc EXCEPT !.errors = Append(acc.errors,
                                     [code |-> r.code, var |-> r.var,
                                      pspecPath |-> r.pspecPath, n |-> r.n])])

\* The mapper with the checks made in the order of `rows`
MapInOrder(pspec, rows) ==
    LET acc == MapRowsFrom(pspec.f, rows, 1, EmptyAcc)
    IN  IF Len(acc.errors) > 0
        THEN [ok |-> FALSE, contract_version |-> ONSHAPE_TEMPLATE_CONTRACT_VERSION,
              errors |-> SortByVar(acc.errors)]
        ELSE [ok |-> TRUE, contract_version |-> ONSHAPE_TEMPLATE_CONTRACT_VERSION,
              variables |-> acc.variables, provenance |-> SortByVar(acc.provenance)]

\* A best-effort mapper: what was mapped is returned next to the errors.
mapPspecBestEffort(pspec) ==
    LET acc == MapRowsFrom(pspec.f, MappingRows, 1, EmptyAcc)
    IN  IF Len(acc.errors) > 0
        THEN [ok |-> FALSE, contract_version |-> ONSHAPE_TEMPLATE_CONTRACT_VERSION,
              errors |-> SortByVar(acc.errors),
              variables |-> acc.variables, provenance |-> SortByVar(acc.provenance)]
        ELSE [ok |-> TRUE, contract_version |-> ONSHAPE_TEMPLATE_CONTRACT_VERSION,
              variables |-> acc.variables, provenance |-> SortByVar(acc.provenance)]

mapPspecToOnshapeVariables(pspec) == MapInOrder(pspec, MappingRows)

\* writeOnshapeMappingArtifacts: both files of the revision's cad directory
writeOnshapeMappingArtifacts(dir, revision, variables, provenance) ==
    [dir EXCEPT ![revision] = Some([variables |-> variables, provenance |-> provenance])]


-----------------------------------------------------------------------------
(* dib/questionSet.v0_1.ts *)

NoDep == [type |-> "none", path |-> "", equals |-> Undef, gte |-> 0]
DepEquals(path, v) == [type |-> "equals", path |-> path, equals |-> v, gte |-> 0]
DepGte(path, n) == [type |-> "gte", path |-> path, equals |-> Undef, gte |-> n]

\* min and max are in hundredths, like every number of the model
Question(store_path, kind, required, range, options, depends_on) ==
    [store_path |-> store_path, kind |-> kind, required |-> required,
     hasRange |-> range # << >>,
     min |-> IF range = << >> THEN 0 ELSE range[1],
     max |-> IF range = << >> THEN 0 ELSE range[2],
     options |-> options, depends_on |-> depends_on]

MmPosRange == << 100, 1000000 >>
MmClrRange == << 0, 200000 >>

dibQuestionSetV0_1 ==
    << Question("/assumptions/archetype_confirmed", "confirm", TRUE, << >>, {}, NoDep),
       Question("/assumptions/sealed_speakers_confirmed", "confirm", TRUE, << >>, {}, NoDep),
       Question("/overall/width_mm", "number_mm", TRUE, MmPosRange, {}, NoDep),
       Question("/overall/height_mm", "number_mm", TRUE, MmPosRange, {}, NoDep),
       Question("/overall/depth_mm", "number_mm", TRUE, MmPosRange, {}, NoDep),
       Question("/constraints/back_clearance_mm", "number_mm", TRUE, MmClrRange, {}, NoDep),
       Question("/access/rear_service_hatch", "boolean", TRUE, << >>, {}, NoDep),
       Question("/material/type", "enum", TRUE, << >>,
                {"plywood", "mdf", "veneer_plywood", "other"}, NoDep),
       Question("/material/thickness_mm", "number_mm", TRUE, << 100, 200000 >>, {}, NoDep),
       Question("/material/notes", "text", FALSE, << >>, {},
                DepEquals("/material/type", Str("other"))),
       Question("/speakers/external_mm/width_mm", "number_mm", TRUE, MmPosRange, {}, NoDep),
       Question("/speakers/external_mm/height_mm", "number_mm", TRUE, MmPosRange, {}, NoDep),
       Question("/speakers/external_mm/depth_mm", "number_mm", TRUE, MmPosRange, {}, NoDep),
       Question("/speakers/weight_kg", "number", TRUE, << 1, 50000 >>, {}, NoDep),
       Question("/speakers/required_clearance_mm", "number_mm", TRUE, MmClrRange, {}, NoDep),
       Question("/speakers/isolation/strategy", "enum", TRUE, << >>,
                {"none", "foam_pad", "sorbothane_feet", "spikes", "floating_shelf", "other"}, NoDep),
       Question("/speakers/isolation/notes", "text", FALSE, << >>, {},
                DepEquals("/speakers/isolation/strategy", Str("other"))),
       Question("/turntable/external_mm/width_mm", "number_mm", TRUE, MmPosRange, {}, NoDep),
       Question("/turntable/external_mm/height_mm", "number_mm", TRUE, MmPosRange, {}, NoDep),
       Question("/turntable/external_mm/depth_mm", "number_mm", TRUE, MmPosRange, {}, NoDep),
       Question("/turntable/isolation", "boolean", TRUE, << >>, {}, NoDep),
       Question("/amplifier/external_mm/width_mm", "number_mm", TRUE, MmPosRange, {}, NoDep),
       Question("/amplifier/external_mm/height_mm", "number_mm", TRUE, MmPosRange, {}, NoDep),
       Question("/amplifier/external_mm/depth_mm", "number_mm", TRUE, MmPosRange, {}, NoDep),
       Question("/amplifier/ventilation_direction", "enum", TRUE, << >>,
                {"front", "rear", "up", "left", "right"}, NoDep),
       Question("/amplifier/required_clearance_mm", "number_mm", TRUE, MmClrRange, {}, NoDep),
       Question("/drawers/count", "integer", TRUE, << 0, 600 >>, {}, NoDep),
       Question("/drawers/lp_capacity_target", "integer", TRUE, << 0, 300000 >>, {},
                DepGte("/drawers/count", 100)),
       Question("/output_profile", "enum", TRUE, << >>,
                {"hand_tools", "panel_saw", "cnc_shop"}, NoDep),
       Question("/confirmed", "confirm", TRUE, << >>, {}, NoDep) >>

\* The store paths of a draft; a draft maps each to its value, Undef when absent.
DraftPaths == { dibQuestionSetV0_1[i].store_path : i \in 1..Len(dibQuestionSetV0_1) }

-----------------------------------------------------------------------------
(* dib/validateDib.ts *)

\* getByPointer on a draft: the value at the path, undefined when absent
getByPointer(obj, pointer) == IF pointer \in DOMAIN obj THEN obj[pointer] ELSE Undef

questionApplies(question, d) ==
    LET dep == question.depends_on
        v == getByPointer(d, dep.path)
    IN  CASE dep.type = "none" -> TRUE
          [] dep.type = "equals" -> v = dep.equals
          [] dep.type = "gte" -> v.k = "num" /\ v.n >= dep.gte

DibError(path, message) == [path |-> path, message |-> message]

\* The errors one iteration of the loop over the questions pushes
QuestionErrors(q, d) ==
    LET v == getByPointer(d, q.store_path)
        kindError ==
            CASE q.kind = "confirm" ->
                    IF v # Bool(TRUE) THEN << DibError(q.store_path, "Must be confirmed.") >> ELSE << >>
              [] q.kind = "boolean" ->
                    IF v.k # "bool" THEN << DibError(q.store_path, "Must be true/false.") >> ELSE << >>
              [] q.kind = "enum" ->
                    IF v.k # "str" \/ v.s \notin q.options
                    THEN << DibError(q.store_path, "Must be one of the options.") >> ELSE << >>
              [] q.kind = "integer" ->
                    IF ~isFiniteNumber(v) \/ ~IsIntegerHundredths(v.n)
                    THEN << DibError(q.store_path, "Must be an integer.") >> ELSE << >>
              [] q.kind \in {"number", "number_mm"} ->
                    IF ~isFiniteNumber(v) THEN << DibError(q.store_path, "Must be a number.") >> ELSE << >>
              [] q.kind = "text" ->
                    IF v.k # "str" THEN << DibError(q.store_path, "Must be text.") >> ELSE << >>
        minError ==
            IF isFiniteNumber(v) /\ q.hasRange /\ v.n < q.min
            THEN << DibError(q.store_path, "Must be >= min.") >> ELSE << >>
        maxError ==
            IF isFiniteNumber(v) /\ q.hasRange /\ v.n > q.max
            THEN << DibError(q.store_path, "Must be <= max.") >> ELSE << >>
    IN  IF ~questionApplies(q, d) THEN << >>
        ELSE IF q.required /\ v = Undef THEN << DibError(q.store_path, "Required.") >>
        ELSE IF v = Undef THEN << >>
        ELSE kindError \o minError \o maxError

RECURSIVE QuestionErrorsFrom(_, _)
QuestionErrorsFrom(i, d) ==
    IF i > Len(dibQuestionSetV0_1) THEN << >>
    ELSE QuestionErrors(dibQuestionSetV0_1[i], d) \o QuestionErrorsFrom(i + 1, d)

\* No cross-field validation
CrossFieldErrorsNone(d) == << >>

CrossFieldErrors(d) ==
    LET overallDepth == getByPointer(d, "/overall/depth_mm")
        backClearance == getByPointer(d, "/constraints/back_clearance_mm")
    IN  IF isFiniteNumber(overallDepth) /\ isFiniteNumber(backClearance)
           /\ backClearance.n >= overallDepth.n
        THEN << DibError("/constraints/back_clearance_mm", "Must be less than overall depth.") >>
        ELSE << >>

\* A validator that returns at the first error it finds
validateDibDraftFirstOnly(d) ==
    LET all == QuestionErrorsFrom(1, d) \o CrossFieldErrors(d)
    IN  IF all = << >> THEN << >> ELSE << Head(all) >>

validateDibDraft(d) == QuestionErrorsFrom(1, d) \o CrossFieldErrors(d)


-----------------------------------------------------------------------------
(* JavaScript conversions used by toDibV0_1, and the JSON round trip *)

\* Boolean(v)
ToBoolean(v) ==
    CASE v.k = "bool" -> v.n = 1
      [] v.k = "num" -> v.n # 0
      [] v.k = "str" -> v.s # ""
      [] OTHER -> FALSE

\* String(n) of a non-negative number held in hundredths
NumToString(n) ==
    LET whole == ToString(n \div 100)
        frac == n % 100
    IN  IF frac = 0 THEN whole
        ELSE IF frac % 10 = 0 THEN whole \o "." \o ToString(frac \div 10)
        ELSE IF frac < 10 THEN whole \o ".0" \o ToString(frac)
        ELSE whole \o "." \o ToString(frac)

\* String(v)
ToStringValue(v) ==
    CASE v.k = "str" -> v
      [] v.k = "undef" -> Str("undefined")
      [] v.k = "null" -> Str("null")
      [] v.k = "nan" -> Str("NaN")
      [] v.k = "bool" -> Str(IF v.n = 1 THEN "true" ELSE "false")
      [] v.k = "num" -> Str(IF v.n < 0 THEN "-" \o NumToString(0 - v.n) ELSE NumToString(v.n))

\* Number(v): as ToNumber, which already sends undefined to NaN
NumberOf(v) == ToNumber(v)

\* JSON.parse(stableStringify(x)) on the fields of a record: NaN is written as
\* null, an undefined property is not written at all (and reads back undefined).
JsonRoundTrip(f) == [p \in DOMAIN f |-> IF f[p].k = "nan" THEN Null ELSE f[p]]

\* sha256Hex(encode(text)): the digest stands for the text it was computed from
sha256Hex(text) == [sha256 |-> text]

-----------------------------------------------------------------------------
(* app/api/projects/[projectId]/dib/confirm/route.ts: toDibV0_1 *)

BooleanPaths ==
    {"/assumptions/archetype_confirmed", "/assumptions/sealed_speakers_confirmed",
     "/access/rear_service_hatch", "/turntable/isolation"}
StringPaths ==
    {"/material/type", "/speakers/isolation/strategy", "/amplifier/ventilation_direction",
     "/output_profile"}
NotesPaths == {"/material/notes", "/speakers/isolation/notes"}

toDibFields(d) ==
    [p \in DraftPaths |->
        LET v == getByPointer(d, p)
        IN  CASE p \in BooleanPaths -> Bool(ToBoolean(v))
              [] p \in StringPaths -> ToStringValue(v)
              [] p \in NotesPaths -> IF v.k = "str" THEN v ELSE Undef
              [] p = "/drawers/lp_capacity_target" ->
                    NumberOf(IF v.k \in {"undef", "null"} THEN Num(0) ELSE v)
              [] p = "/confirmed" -> Bool(TRUE)
              [] OTHER -> NumberOf(v)]

toDibV0_1(revision, nowIso, d) ==
    [revision |-> revision, created_at |-> nowIso, confirmed_at |-> nowIso,
     f |-> toDibFields(d)]

\* stableStringify(dib), and what readJson returns for that text
DibText(dib) == [dib EXCEPT !.f = JsonRoundTrip(dib.f)]

-----------------------------------------------------------------------------
(* spec/generatePspec.ts *)

Sides == {"left_mm", "right_mm", "top_mm", "bottom_mm", "front_mm", "rear_mm"}
Dims == {"width_mm", "height_mm", "depth_mm"}

\* PSPEC pointer -> DIB pointer, for the fields generatePspecV0_1 copies
CopiedFrom ==
    [p \in {"/overall/" \o x : x \in Dims} |-> p]
    @@ [p \in {"/material/type", "/material/thickness_mm", "/material/notes",
               "/constraints/back_clearance_mm", "/access/rear_service_hatch",
               "/output_profile"} |-> p]
    @@ [p \in {"/components/speakers/external_mm/" \o x : x \in Dims} |->
            CHOOSE q \in {"/speakers/external_mm/" \o x : x \in Dims} : "/components" \o q = p]
    @@ [p \in {"/components/turntable/external_mm/" \o x : x \in Dims} |->
            CHOOSE q \in {"/turntable/external_mm/" \o x : x \in Dims} : "/components" \o q = p]
    @@ [p \in {"/components/amplifier/external_mm/" \o x : x \in Dims} |->
            CHOOSE q \in {"/amplifier/external_mm/" \o x : x \in Dims} : "/components" \o q = p]
    @@ ("/components/speakers/weight_kg" :> "/speakers/weight_kg")
    @@ ("/components/speakers/isolation/strategy" :> "/speakers/isolation/strategy")
    @@ ("/components/speakers/isolation/notes" :> "/speakers/isolation/notes")
    @@ ("/components/turntable/isolation" :> "/turntable/isolation")
    @@ ("/components/amplifier/ventilation_direction" :> "/amplifier/ventilation_direction")
    @@ ("/components/drawers/count" :> "/drawers/count")
    @@ ("/components/drawers/lp_capacity_target" :> "/drawers/lp_capacity_target")

\* A clearanceAll that gives the clearance to the front side only
clearanceFrontOnly(prefix, mm) ==
    [p \in {prefix \o x : x \in Sides} |-> IF p = prefix \o "front_mm" THEN mm ELSE Num(0)]
clearanceAll(prefix, mm) == [p \in {prefix \o x : x \in Sides} |-> mm]

generatePspecV0_1(revision, createdAtIso, crg, dib, dibSha256) ==
    [revision |-> revision,
     created_at |-> createdAtIso,
     inputs |-> [crg |-> crg,
                 dib |-> [revision |-> dib.revision, sha256 |-> dibSha256,
                          confirmed_at |-> dib.confirmed_at]],
     f |-> [p \in DOMAIN CopiedFrom |-> dib.f[CopiedFrom[p]]]
           @@ clearanceAll("/components/speakers/clearance_mm/", dib.f["/speakers/required_clearance_mm"])
           @@ clearanceAll("/components/turntable/clearance_mm/", Num(0))
           @@ clearanceAll("/components/amplifier/clearance_mm/", dib.f["/amplifier/required_clearance_mm"])]

\* stableStringify(pspec), and what readJson returns for that text
PspecText(pspec) == [pspec EXCEPT !.f = JsonRoundTrip(pspec.f)]

-----------------------------------------------------------------------------
(* spec/pspecValidation.ts *)

PspecNumberPaths ==
    {"/overall/" \o x : x \in Dims}
    \cup {"/material/thickness_mm", "/constraints/back_clearance_mm",
          "/components/speakers/weight_kg",
          "/components/drawers/count", "/components/drawers/lp_capacity_target"}
    \cup {"/components/" \o c \o "/external_mm/" \o x :
             c \in {"speakers", "turntable", "amplifier"}, x \in Dims}
    \cup {"/components/" \o c \o "/clearance_mm/" \o x :
             c \in {"speakers", "turntable", "amplifier"}, x \in Sides}

\* schemas/pspec.schema.json is not part of the sources: the contract is taken as
\* required fields present, primitive types, enum membership.
validatePspecAgainstSchema(pspec) ==
    LET f == pspec.f
    IN  { [message |-> "must be number", instancePath |-> p] :
            p \in {q \in PspecNumberPaths : f[q].k # "num"} }
        \cup { [message |-> "must be boolean", instancePath |-> p] :
            p \in {q \in {"/access/rear_service_hatch", "/components/turntable/isolation"} :
                     f[q].k # "bool"} }
        \cup { [message |-> "must be string", instancePath |-> p] :
            p \in {q \in {"/material/type", "/components/speakers/isolation/strategy"} :
                     f[q].k # "str"} }
        \cup { [message |-> "must be equal to one of the allowed values", instancePath |-> p] :
            p \in {q \in {"/output_profile"} :
                     f[q].k # "str" \/ f[q].s \notin {"hand_tools", "panel_saw", "cnc_shop"}} }
        \cup { [message |-> "must be equal to one of the allowed values", instancePath |-> p] :
            p \in {q \in {"/components/amplifier/ventilation_direction"} :
                     f[q].k # "str" \/ f[q].s \notin {"front", "rear", "up", "left", "right"}} }

\* a + b and a > b on numbers (the schema check has passed: the operands are numbers)
Add(a, b) ==
    LET x == ToNumber(a)
        y == ToNumber(b)
    IN  IF x.k = "num" /\ y.k = "num" THEN Num(x.n + y.n) ELSE NaN
Gt(a, b) ==
    LET x == ToNumber(a)
        y == ToNumber(b)
    IN  x.k = "num" /\ y.k = "num" /\ x.n > y.n

envDepth(componentDepth, front, rear) == Add(Add(componentDepth, front), rear)

validatePspecManufacturability(pspec) ==
    LET f == pspec.f
        availableDepth == Sub(f["/overall/depth_mm"], f["/constraints/back_clearance_mm"])
        overflow(c) ==
            Gt(envDepth(f["/components/" \o c \o "/external_mm/depth_mm"],
                        f["/components/" \o c \o "/clearance_mm/front_mm"],
                        f["/components/" \o c \o "/clearance_mm/rear_mm"]), availableDepth)
        errors ==
            (IF ~Gt(availableDepth, Num(0))
             THEN << "overall.depth_mm must exceed constraints.back_clearance_mm." >> ELSE << >>)
            \o (IF Gt(availableDepth, Num(0)) /\ overflow("speakers")
                THEN << "Speakers exceed available depth." >> ELSE << >>)
            \o (IF Gt(availableDepth, Num(0)) /\ overflow("amplifier")
                THEN << "Amplifier exceeds available depth." >> ELSE << >>)
            \o (IF Gt(availableDepth, Num(0)) /\ overflow("turntable")
                THEN << "Turntable exceeds available depth." >> ELSE << >>)
            \o (IF Gt(availableDepth, Num(0)) /\ Gt(f["/components/drawers/count"], Num(0))
                   /\ Gt(Num(33000), availableDepth)
                THEN << "Drawers requested, but available depth is less than minimum LP drawer depth." >>
                ELSE << >>)
    IN  IF Len(errors) > 0 THEN [ok |-> FALSE, errors |-> errors] ELSE [ok |-> TRUE]


-----------------------------------------------------------------------------
(* Bounds of the model *)

MaxDibRev == 2
MaxPspecRev == 2
MaxClock == 1

DibRevs == 1..MaxDibRev
PspecRevs == 1..MaxPspecRev

-----------------------------------------------------------------------------
(* Drafts the client may save *)

DraftBase ==
    [p \in DraftPaths |->
        CASE p = "/assumptions/archetype_confirmed" -> Bool(TRUE)
          [] p = "/assumptions/sealed_speakers_confirmed" -> Bool(TRUE)
          [] p = "/overall/width_mm" -> Num(200000)
          [] p = "/overall/height_mm" -> Num(90000)
          [] p = "/overall/depth_mm" -> Num(45000)
          [] p = "/constraints/back_clearance_mm" -> Num(2500)
          [] p = "/access/rear_service_hatch" -> Bool(TRUE)
          [] p = "/material/type" -> Str("plywood")
          [] p = "/material/thickness_mm" -> Num(1800)
          [] p = "/material/notes" -> Undef
          [] p = "/speakers/external_mm/width_mm" -> Num(20000)
          [] p = "/speakers/external_mm/height_mm" -> Num(30000)
          [] p = "/speakers/external_mm/depth_mm" -> Num(25000)
          [] p = "/speakers/weight_kg" -> Num(850)
          [] p = "/speakers/required_clearance_mm" -> Num(1000)
          [] p = "/speakers/isolation/strategy" -> Str("foam_pad")
          [] p = "/speakers/isolation/notes" -> Undef
          [] p = "/turntable/external_mm/width_mm" -> Num(45000)
          [] p = "/turntable/external_mm/height_mm" -> Num(15000)
          [] p = "/turntable/external_mm/depth_mm" -> Num(37000)
          [] p = "/turntable/isolation" -> Bool(TRUE)
          [] p = "/amplifier/external_mm/width_mm" -> Num(43000)
          [] p = "/amplifier/external_mm/height_mm" -> Num(15000)
          [] p = "/amplifier/external_mm/depth_mm" -> Num(35000)
          [] p = "/amplifier/ventilation_direction" -> Str("rear")
          [] p = "/amplifier/required_clearance_mm" -> Num(2000)
          [] p = "/drawers/count" -> Num(200)
          [] p = "/drawers/lp_capacity_target" -> Num(12000)
          [] p = "/output_profile" -> Str("cnc_shop")
          [] p = "/confirmed" -> Bool(TRUE)]

With(d, path, v) == [d EXCEPT ![path] = v]

\* back clearance 440 of depth 450: valid as a DIB, not manufacturable
DraftInfeasible == With(DraftBase, "/constraints/back_clearance_mm", Num(44000))
\* a required answer is missing
DraftIncomplete == With(DraftBase, "/overall/depth_mm", Undef)
\* no drawers, and a stale LP capacity answer the question set no longer asks for
DraftStaleLp ==
    With(With(DraftBase, "/drawers/count", Num(0)), "/drawers/lp_capacity_target", Num(500000))

DraftInputs == {DraftBase, DraftInfeasible, DraftIncomplete, DraftStaleLp}

\* readDibDraft(projectId) ?? {}
EmptyDraft == [p \in DraftPaths |-> Undef]

-----------------------------------------------------------------------------
(* intake/crgIntake.ts *)

CrgUploads ==
    { [name |-> "console.glb", bytes |-> 3, content |-> "A"],
      [name |-> "console.txt", bytes |-> 4, content |-> "C"],
      [name |-> "empty.glb", bytes |-> 0, content |-> ""] }

\* formatFromFileName: the extension, or Absent where the code throws
formatFromFileName(fileName) ==
    CASE fileName = "console.glb" -> Some("glb")
      [] fileName = "empty.glb" -> Some("glb")
      [] fileName = "console.obj" -> Some("obj")
      [] OTHER -> Absent

-----------------------------------------------------------------------------
(* pipeline/runMeta.ts *)

NoApproval == [state |-> "none", revision |-> Absent, decided_at |-> Absent]

initRunMeta(nowIso) ==
    [created_at |-> nowIso,
     updated_at |-> nowIso,
     crg |-> Absent,
     dib |-> [latest_revision |-> 0, revisions |-> << >>],
     pspec |-> [latest_revision |-> 0, revisions |-> << >>, approval |-> NoApproval]]

\* meta.pspec.revisions.find((r) => r.revision === rev): the index, 0 when none
FindRevision(revisions, rev) ==
    IF \E i \in 1..Len(revisions) : revisions[i].revision = rev
    THEN CHOOSE i \in 1..Len(revisions) :
            /\ revisions[i].revision = rev
            /\ \A j \in 1..(i - 1) : revisions[j].revision # rev
    ELSE 0


-----------------------------------------------------------------------------
(* The ledger updates the route handlers make between readRunMeta and writeRunMeta *)

\* dib/confirm/route.ts, lines 120-125
ConfirmLedgerKeepApproval(m, revision, dibSha, now) ==
    [m EXCEPT !.updated_at = now,
              !.dib.latest_revision = revision,
              !.dib.revisions = Append(@, [revision |-> revision, sha256 |-> dibSha,
                                           confirmed_at |-> now])]
\* A confirmation that keeps only the newest DIB record
ConfirmLedgerLatestOnly(m, revision, dibSha, now) ==
    [m EXCEPT !.updated_at = now,
              !.dib.latest_revision = revision,
              !.dib.revisions = << [revision |-> revision, sha256 |-> dibSha,
                                    confirmed_at |-> now] >>,
              !.pspec.approval = NoApproval]
ConfirmLedger(m, revision, dibSha, now) ==
    [m EXCEPT !.updated_at = now,
              !.dib.latest_revision = revision,
              !.dib.revisions = Append(@, [revision |-> revision, sha256 |-> dibSha,
                                           confirmed_at |-> now]),
              !.pspec.approval = NoApproval]

\* pspec/generate/route.ts, lines 71-83
GenerateLedgerKeepPointer(m, revision, pspecSha, summarySha, now, dib, dibSha) ==
    [m EXCEPT !.updated_at = now,
              !.pspec.latest_revision = revision,
              !.pspec.revisions = Append(@,
                  [revision |-> revision, sha256 |-> pspecSha, summary_md_sha256 |-> summarySha,
                   created_at |-> now, dib_revision |-> dib.revision, dib_sha256 |-> dibSha,
                   crg_sha256 |-> m.crg[1].sha256,
                   approval |-> [state |-> "pending", decided_at |-> Absent]])]
GenerateLedgerNumbersByDib(m, revision, pspecSha, summarySha, now, dib, dibSha) ==
    [m EXCEPT !.updated_at = now,
              !.pspec.latest_revision = revision,
              !.pspec.revisions = Append(@,
                  [revision |-> dib.revision, sha256 |-> pspecSha,
                   summary_md_sha256 |-> summarySha,
                   created_at |-> now, dib_revision |-> dib.revision, dib_sha256 |-> dibSha,
                   crg_sha256 |-> m.crg[1].sha256,
                   approval |-> [state |-> "pending", decided_at |-> Absent]]),
              !.pspec.approval = [state |-> "pending", revision |-> Some(revision),
                                  decided_at |-> Absent]]
\* A generation that also returns every earlier record to pending
GenerateLedgerResetsRecords(m, revision, pspecSha, summarySha, now, dib, dibSha) ==
    [m EXCEPT !.updated_at = now,
              !.pspec.latest_revision = revision,
              !.pspec.revisions = Append(
                  [i \in 1..Len(m.pspec.revisions) |->
                      [m.pspec.revisions[i] EXCEPT
                          !.approval = [state |-> "pending", decided_at |-> Absent]]],
                  [revision |-> revision, sha256 |-> pspecSha, summary_md_sha256 |-> summarySha,
                   created_at |-> now, dib_revision |-> dib.revision, dib_sha256 |-> dibSha,
                   crg_sha256 |-> m.crg[1].sha256,
                   approval |-> [state |-> "pending", decided_at |-> Absent]]),
              !.pspec.approval = [state |-> "pending", revision |-> Some(revision),
                                  decided_at |-> Absent]]
GenerateLedger(m, revision, pspecSha, summarySha, now, dib, dibSha) ==
    [m EXCEPT !.updated_at = now,
              !.pspec.latest_revision = revision,
              !.pspec.revisions = Append(@,
                  [revision |-> revision, sha256 |-> pspecSha, summary_md_sha256 |-> summarySha,
                   created_at |-> now, dib_revision |-> dib.revision, dib_sha256 |-> dibSha,
                   crg_sha256 |-> m.crg[1].sha256,
                   approval |-> [state |-> "pending", decided_at |-> Absent]]),
              !.pspec.approval = [state |-> "pending", revision |-> Some(revision),
                                  decided_at |-> Absent]]

\* pspec/approve/route.ts, lines 15-20
\* An approval that moves the pointer and leaves the revision's record as it was
ApproveLedgerPointerOnly(m, now) ==
    [m EXCEPT !.updated_at = now,
              !.pspec.approval = [state |-> "approved",
                                  revision |-> Some(m.pspec.latest_revision),
                                  decided_at |-> Some(now)]]
ApproveLedger(m, now) ==
    LET rev == m.pspec.latest_revision
        i == FindRevision(m.pspec.revisions, rev)
        pointed == [m EXCEPT !.updated_at = now,
                             !.pspec.approval = [state |-> "approved", revision |-> Some(rev),
                                                 decided_at |-> Some(now)]]
    IN  IF i = 0 THEN pointed
        ELSE [pointed EXCEPT !.pspec.revisions[i].approval =
                                [state |-> "approved", decided_at |-> Some(now)]]

\* ingestCrg: atomicWriteFile(crg/<original file name>, bytes)
NoCrgFiles == [name \in {} |-> ""]
writeCrgFile(dir, file) == (file.name :> file.content) @@ dir

\* intake/crgIntake.ts, lines 45-52
\* An upload that starts the ledger afresh
IngestLedgerAfresh(m, file, now) ==
    [initRunMeta(now) EXCEPT !.crg = Some([original_filename |-> file.name,
                                           format |-> formatFromFileName(file.name)[1],
                                           bytes |-> file.bytes,
                                           sha256 |-> sha256Hex(file.content),
                                           uploaded_at |-> now])]
IngestLedger(m, file, now) ==
    [m EXCEPT !.updated_at = now,
              !.crg = Some([original_filename |-> file.name,
                            format |-> formatFromFileName(file.name)[1],
                            bytes |-> file.bytes,
                            sha256 |-> sha256Hex(file.content),
                            uploaded_at |-> now])]

\* spec/generatePspec.ts: pspecSummaryMarkdown renders these fields
pspecSummaryMarkdown(pspec) ==
    [revision |-> pspec.revision,
     crg |-> [original_filename |-> pspec.inputs.crg.original_filename,
              bytes |-> pspec.inputs.crg.bytes],
     dib_revision |-> pspec.inputs.dib.revision,
     availableDepth |-> Sub(pspec.f["/overall/depth_mm"], pspec.f["/constraints/back_clearance_mm"]),
     f |-> pspec.f]

\* NextResponse.json({ok, error, errors, revision}); errors is the list a refusal carries
Response(op, ok, error, revision) ==
    [op |-> op, ok |-> ok, error |-> error, revision |-> revision, errors |-> << >>]
Refusal(op, error, errors) ==
    [op |-> op, ok |-> FALSE, error |-> error, revision |-> 0, errors |-> errors]

-----------------------------------------------------------------------------
(* The route handlers, each request handled to completion *)

files == << crgFiles, draft, dibLatest, dibRev, pspecLatest, pspecRev, cad, runs, runArchive >>
harness == << procs, mapIn, mapOut, mfgOut, client, oauth, overlap >>

\* A request body whose draft is missing or is not an object
NoDraftObject == Null

\* A draft route that validates what it is asked to save
SaveDraftValidating(payload) ==
    IF payload = NoDraftObject
    THEN /\ last' = Response("draft", FALSE, "Invalid draft payload.", 0)
         /\ UNCHANGED << clock, meta, files, harness >>
    ELSE IF Len(validateDibDraft(payload)) > 0
    THEN /\ last' = Refusal("draft", "DIB is incomplete or invalid.", validateDibDraft(payload))
         /\ UNCHANGED << clock, meta, files, harness >>
    ELSE /\ draft' = Some(payload)
         /\ last' = Response("draft", TRUE, "", 0)
         /\ UNCHANGED << clock, meta, dibLatest, dibRev, pspecLatest, pspecRev, cad, runs,
                         runArchive, crgFiles, harness >>

\* POST /api/projects/[projectId]/dib/draft
SaveDraft(payload) ==
    IF payload = NoDraftObject
    THEN /\ last' = Response("draft", FALSE, "Invalid draft payload.", 0)
         /\ UNCHANGED << clock, meta, files, harness >>
    ELSE /\ draft' = Some(payload)
         /\ last' = Response("draft", TRUE, "", 0)
         /\ UNCHANGED << clock, meta, dibLatest, dibRev, pspecLatest, pspecRev, cad, runs,
                         runArchive, crgFiles, harness >>

\* POST /api/projects/[projectId]/crg
UploadCrg(file) ==
    IF formatFromFileName(file.name) = Absent \/ file.bytes < 1
    THEN /\ last' = Response("crg", FALSE, "invalid file", 0)
         /\ UNCHANGED << clock, meta, files, harness >>
    ELSE /\ crgFiles' = writeCrgFile(crgFiles, file)
         /\ meta' = IngestLedger(meta, file, clock)
         /\ last' = Response("crg", TRUE, "", 0)
         /\ UNCHANGED << clock, draft, dibLatest, dibRev, pspecLatest, pspecRev, cad, runs,
                         runArchive, harness >>

\* POST /api/projects/[projectId]/dib/confirm
ConfirmDib ==
    LET d == IF draft = Absent THEN EmptyDraft ELSE draft[1]
        errors == validateDibDraft(d)
        now == clock
        revision == meta.dib.latest_revision + 1
        dib == toDibV0_1(revision, now, d)
        dibSha == sha256Hex(DibText(dib))
    IN  /\ meta.dib.latest_revision < MaxDibRev
        /\ IF Len(errors) > 0
           THEN /\ last' = Refusal("confirm", "DIB is incomplete or invalid.", errors)
                /\ UNCHANGED << clock, meta, files, harness >>
           ELSE /\ dibRev' = [dibRev EXCEPT ![revision] = Some(DibText(dib))]
                /\ dibLatest' = Some(DibText(dib))
                /\ meta' = ConfirmLedger(meta, revision, dibSha, now)
                /\ last' = Response("confirm", TRUE, "", revision)
                /\ UNCHANGED << clock, draft, pspecLatest, pspecRev, cad, runs, runArchive, crgFiles, harness >>

\* A generate route that writes the revision's files before it maps the variables
GeneratePspecWritesFirst ==
    LET now == clock
        revision == meta.pspec.latest_revision + 1
        dib == dibLatest[1]
        dibSha == sha256Hex(DibText(dib))
        pspec == generatePspecV0_1(revision, now, meta.crg[1], dib, dibSha)
        manuf == validatePspecManufacturability(pspec)
        mapping == mapPspecToOnshapeVariables(pspec)
        summaryMd == pspecSummaryMarkdown(pspec)
        written == Some([pspec |-> PspecText(pspec), summary |-> summaryMd])
        refuse(error, errors) == /\ last' = Refusal("generate", error, errors)
                                 /\ UNCHANGED << clock, meta, files, harness >>
    IN  /\ meta.pspec.latest_revision < MaxPspecRev
        /\ IF meta.crg = Absent THEN refuse("Upload a CRG file first.", << >>)
           ELSE IF meta.dib.latest_revision < 1 THEN refuse("Confirm the DIB first.", << >>)
           ELSE IF dibLatest = Absent THEN refuse("Missing dib.json.", << >>)
           ELSE IF validatePspecAgainstSchema(pspec) # {}
                THEN refuse("PSPEC failed schema validation.", << >>)
           ELSE IF ~manuf.ok
                THEN refuse("PSPEC failed manufacturability validation.", manuf.errors)
           ELSE IF ~mapping.ok
                THEN /\ pspecRev' = [pspecRev EXCEPT ![revision] = written]
                     /\ pspecLatest' = written
                     /\ last' = Refusal("generate", "Onshape variables mapping failed.",
                                        mapping.errors)
                     /\ UNCHANGED << clock, meta, draft, dibLatest, dibRev, cad, runs,
                                     runArchive, crgFiles, harness >>
           ELSE /\ pspecRev' = [pspecRev EXCEPT ![revision] = written]
                /\ pspecLatest' = written
                /\ cad' = writeOnshapeMappingArtifacts(cad, revision, mapping.variables,
                                                       mapping.provenance)
                /\ meta' = GenerateLedger(meta, revision, sha256Hex(PspecText(pspec)),
                                          sha256Hex(summaryMd), now, dib, dibSha)
                /\ last' = Response("generate", TRUE, "", revision)
                /\ UNCHANGED << clock, draft, dibLatest, dibRev, runs, runArchive, crgFiles,
                                harness >>

\* POST /api/projects/[projectId]/pspec/generate
GeneratePspec ==
    LET now == clock
        revision == meta.pspec.latest_revision + 1
        dib == dibLatest[1]
        dibSha == sha256Hex(DibText(dib))
        pspec == generatePspecV0_1(revision, now, meta.crg[1], dib, dibSha)
        mapping == mapPspecToOnshapeVariables(pspec)
        summaryMd == pspecSummaryMarkdown(pspec)
        manuf == validatePspecManufacturability(pspec)
        refuse(error, errors) == /\ last' = Refusal("generate", error, errors)
                                 /\ UNCHANGED << clock, meta, files, harness >>
        fail(error) == refuse(error, << >>)
    IN  /\ meta.pspec.latest_revision < MaxPspecRev
        /\ IF meta.crg = Absent THEN fail("Upload a CRG file first.")
           ELSE IF meta.dib.latest_revision < 1 THEN fail("Confirm the DIB first.")
           ELSE IF dibLatest = Absent THEN fail("Missing dib.json.")
           ELSE IF validatePspecAgainstSchema(pspec) # {}
                THEN fail("PSPEC failed schema validation.")
           ELSE IF ~manuf.ok
                THEN refuse("PSPEC failed manufacturability validation.", manuf.errors)
           ELSE IF ~mapping.ok THEN refuse("Onshape variables mapping failed.", mapping.errors)
           ELSE /\ pspecRev' = [pspecRev EXCEPT ![revision] =
                                   Some([pspec |-> PspecText(pspec), summary |-> summaryMd])]
                /\ pspecLatest' = Some([pspec |-> PspecText(pspec), summary |-> summaryMd])
                /\ cad' = writeOnshapeMappingArtifacts(cad, revision, mapping.variables,
                                                       mapping.provenance)
                /\ meta' = GenerateLedger(meta, revision, sha256Hex(PspecText(pspec)),
                                          sha256Hex(summaryMd), now, dib, dibSha)
                /\ last' = Response("generate", TRUE, "", revision)
                /\ UNCHANGED << clock, draft, dibLatest, dibRev, runs, runArchive, crgFiles, harness >>

\* POST /api/projects/[projectId]/pspec/approve
ApprovePspec ==
    IF meta.pspec.latest_revision < 1
    THEN /\ last' = Response("approve", FALSE, "No PSPEC to approve.", 0)
         /\ UNCHANGED << clock, meta, files, harness >>
    ELSE /\ meta' = ApproveLedger(meta, clock)
         /\ last' = Response("approve", TRUE, "", meta.pspec.latest_revision)
         /\ UNCHANGED << clock, files, harness >>

-----------------------------------------------------------------------------
(* cad/onshapeOps.ts: the Onshape run of one PSPEC revision *)

\* What the Onshape service does with a run: it completes, or a step throws
OnshapeOutcomes == {"ok", "regenerate"}

\* The archived run records a cad directory is let grow to
MaxArchived == 1

runRecordBase(now) ==
    [status |-> "FAILED", timestamp |-> now, created |-> Absent,
     variablesApplied |-> 0, errors |-> << >>]

readOnshapeRunRecord(dir, revision) == dir[revision]

writeOnshapeRunRecord(dir, revision, run) == [dir EXCEPT ![revision] = Some(run)]

\* archiveRunRecordIfPresent: a copy of the latest record under the time of archiving
archiveRunRecordIfPresent(archive, dir, revision, now) ==
    IF dir[revision] = Absent THEN archive
    ELSE {a \in archive : ~(a[1] = revision /\ a[2] = now)}
            \cup {<< revision, now, dir[revision][1] >>}

\* readVariablesForRevision: the variables file, or Absent where the code throws
readVariablesForRevision(mapped, revision) ==
    IF mapped[revision] = Absent THEN Absent ELSE Some(mapped[revision][1].variables)

\* The record the try / catch of generateOnshapeRunForRevision ends with
OnshapeRun(mapped, revision, outcome, now) ==
    LET base == runRecordBase(now)
        variables == readVariablesForRevision(mapped, revision)
        failed(step, run) == [run EXCEPT !.status = "FAILED", !.errors = << step >>]
    IN  IF variables = Absent THEN failed("load_variables", base)
        ELSE IF outcome = "clone_template" THEN failed("clone_template", base)
        ELSE LET cloned == [base EXCEPT !.created = Some(revision)]
                 applied == [cloned EXCEPT !.variablesApplied =
                                Cardinality(DOMAIN variables[1])]
             IN  IF outcome = "regenerate" THEN failed("regenerate", applied)
                 ELSE [applied EXCEPT !.status = "SUCCESS", !.errors = << >>]

generateOnshapeRunForRevision(dir, archive, mapped, revision, force, outcome, now) ==
    LET existingRun == readOnshapeRunRecord(dir, revision)
        run == OnshapeRun(mapped, revision, outcome, now)
    IN  IF existingRun # Absent /\ existingRun[1].status = "SUCCESS" /\ ~force
        THEN [run |-> existingRun[1], reused |-> TRUE, runs |-> dir, archive |-> archive]
        ELSE [run |-> run, reused |-> FALSE,
              runs |-> writeOnshapeRunRecord(dir, revision, run),
              archive |-> IF force /\ existingRun # Absent
                          THEN archiveRunRecordIfPresent(archive, dir, revision, now)
                          ELSE archive]

\* POST /api/projects/[projectId]/revisions/[revId]/onshape/generate
GenerateOnshapeUnguarded(revision, force, outcome) ==
    LET i == FindRevision(meta.pspec.revisions, revision)
        result == generateOnshapeRunForRevision(runs, runArchive, cad, revision, force,
                                                outcome, clock)
        fail(error) == /\ last' = Response("onshape", FALSE, error, revision)
                       /\ UNCHANGED << clock, meta, files, harness >>
    IN  IF i = 0 THEN fail("PSPEC revision not found.")
        ELSE /\ runs' = result.runs
             /\ runArchive' = result.archive
             /\ last' = Response("onshape", result.run.status = "SUCCESS",
                                 IF result.run.status = "SUCCESS" THEN ""
                                 ELSE result.run.errors[1], revision)
             /\ UNCHANGED << clock, crgFiles, draft, meta, dibLatest, dibRev, pspecLatest,
                             pspecRev, cad, harness >>
GenerateOnshape(revision, force, outcome) ==
    LET i == FindRevision(meta.pspec.revisions, revision)
        result == generateOnshapeRunForRevision(runs, runArchive, cad, revision, force,
                                                outcome, clock)
        fail(error) == /\ last' = Response("onshape", FALSE, error, revision)
                       /\ UNCHANGED << clock, meta, files, harness >>
    IN  IF i = 0 THEN fail("PSPEC revision not found.")
        ELSE IF meta.pspec.revisions[i].approval.state # "approved"
             THEN fail("Approve this PSPEC revision before generating an Onshape model.")
        ELSE /\ runs' = result.runs
             /\ runArchive' = result.archive
             /\ last' = Response("onshape", result.run.status = "SUCCESS",
                                 IF result.run.status = "SUCCESS" THEN ""
                                 ELSE result.run.errors[1], revision)
             /\ UNCHANGED << clock, crgFiles, draft, meta, dibLatest, dibRev, pspecLatest,
                             pspecRev, cad, harness >>

\* POST /api/projects/[projectId]/pspec/reject: the approve route with "rejected"
RejectLedger(m, now) ==
    LET rev == m.pspec.latest_revision
        i == FindRevision(m.pspec.revisions, rev)
        pointed == [m EXCEPT !.updated_at = now,
                             !.pspec.approval = [state |-> "rejected", revision |-> Some(rev),
                                                 decided_at |-> Some(now)]]
    IN  IF i = 0 THEN pointed
        ELSE [pointed EXCEPT !.pspec.revisions[i].approval =
                                [state |-> "rejected", decided_at |-> Some(now)]]

RejectPspec ==
    IF meta.pspec.latest_revision < 1
    THEN /\ last' = Response("reject", FALSE, "No PSPEC to reject.", 0)
         /\ UNCHANGED << clock, meta, files, harness >>
    ELSE /\ meta' = RejectLedger(meta, clock)
         /\ last' = Response("reject", TRUE, "", meta.pspec.latest_revision)
         /\ UNCHANGED << clock, files, harness >>

\* Time passes between two readings of the clock.
Tick ==
    /\ clock < MaxClock
    /\ clock' = clock + 1
    /\ UNCHANGED << meta, files, last, harness >>

NoFiles ==
    /\ crgFiles = NoCrgFiles
    /\ draft = Absent
    /\ dibLatest = Absent
    /\ dibRev = [r \in DibRevs |-> Absent]
    /\ pspecLatest = Absent
    /\ pspecRev = [r \in PspecRevs |-> Absent]
    /\ cad = [r \in PspecRevs |-> Absent]
    /\ runs = [r \in PspecRevs |-> Absent]
    /\ runArchive = {}

\* createProject: the project directory with a fresh ledger
Init ==
    /\ clock = 0
    /\ meta = initRunMeta(0)
    /\ NoFiles
    /\ last = Response("create", TRUE, "", 0)
    /\ procs = << >>
    /\ mapIn = Absent
    /\ mapOut = Absent
    /\ mfgOut = Absent
    /\ client = Absent
    /\ oauth = Absent
    /\ overlap = FALSE

Next ==
    \/ \E payload \in DraftInputs \cup {NoDraftObject} : SaveDraft(payload)
    \/ \E file \in CrgUploads : UploadCrg(file)
    \/ ConfirmDib
    \/ GeneratePspec
    \/ ApprovePspec
    \/ Tick

Spec == Init /\ [][Next]_vars

\* The review and CAD stage, from a project whose CRG is uploaded and whose first DIB
\* is confirmed: generation, approve / reject, Onshape runs
InitCad ==
    LET file == CHOOSE f \in CrgUploads : f.name = "console.glb"
        text == DibText(toDibV0_1(1, 0, DraftBase))
    IN  /\ clock = 0
        /\ meta = ConfirmLedger(IngestLedger(initRunMeta(0), file, 0), 1, sha256Hex(text), 0)
        /\ crgFiles = writeCrgFile(NoCrgFiles, file)
        /\ draft = Some(DraftBase)
        /\ dibLatest = Some(text)
        /\ dibRev = [r \in DibRevs |-> IF r = 1 THEN Some(text) ELSE Absent]
        /\ pspecLatest = Absent
        /\ pspecRev = [r \in PspecRevs |-> Absent]
        /\ cad = [r \in PspecRevs |-> Absent]
        /\ runs = [r \in PspecRevs |-> Absent]
        /\ runArchive = {}
        /\ last = Response("confirm", TRUE, "", 1)
        /\ procs = << >>
        /\ mapIn = Absent
        /\ mapOut = Absent
        /\ mfgOut = Absent
        /\ client = Absent
        /\ oauth = Absent
        /\ overlap = FALSE

NextCad ==
    \/ GeneratePspec
    \/ ApprovePspec
    \/ RejectPspec
    \/ \E revision \in 0..(MaxPspecRev + 1), force \in BOOLEAN, outcome \in OnshapeOutcomes :
          /\ force => Cardinality(runArchive) < MaxArchived
          /\ GenerateOnshape(revision, force, outcome)
    \/ Tick

SpecCad == InitCad /\ [][NextCad]_vars

-----------------------------------------------------------------------------
(* The mapper on its own: a PSPEC is handed to mapPspecToOnshapeVariables and the *)
(* generate route's handling of the result follows (route.ts, lines 56-69).        *)

BaseCrg ==
    IngestLedger(initRunMeta(0), CHOOSE f \in CrgUploads : f.name = "console.glb", 0).crg[1]
BaseDib == DibText(toDibV0_1(1, 0, DraftBase))
BasePspec == generatePspecV0_1(1, 0, BaseCrg, BaseDib, sha256Hex(BaseDib))

\* The PSPEC fields the mapper reads
MappedPaths == {MappingRows[i].pspecPath : i \in 1..Len(MappingRows)} \cap DOMAIN BasePspec.f

\* Values a field of a PSPEC object may hold when the mapper is called
FieldValues ==
    {Undef, Null, NaN, Str("abc"), Str("300"), Str(""), Bool(TRUE), Bool(FALSE),
     Num(0), Num(40), Num(50), Num(100), Num(-50), Num(-150), Num(250), Num(300), Num(600),
     Num(700), Num(10040), Num(10050), Num(200040), Num(200050), Num(1000040), Num(1000050),
     Str("plywood"), Str("mdf"), Str("bamboo"), Str("up"), Str("toString")}

PairValues == {Undef, NaN, Num(10050), Num(1000050)}
DepthValues == {Num(45040), Num(45050), Num(2540), Num(2500)}
ClearanceValues == {Num(2500), Num(2550), Num(44960), Num(45000)}

WithField(pspec, path, v) == [pspec EXCEPT !.f[path] = v]

MapInputs ==
    {BasePspec}
    \cup {WithField(BasePspec, p, v) : p \in MappedPaths, v \in FieldValues}
    \cup {WithField(WithField(BasePspec, "/overall/width_mm", v), "/material/thickness_mm", w) :
            v \in PairValues, w \in PairValues}
    \cup {WithField(WithField(BasePspec, "/overall/depth_mm", v),
                    "/constraints/back_clearance_mm", w) :
            v \in DepthValues, w \in ClearanceValues}

\* const mapping = mapPspecToOnshapeVariables(pspec); if (!mapping.ok) return 400;
\* ... await writeOnshapeMappingArtifacts(...)
MapAndWrite ==
    LET pspec == mapIn[1]
        mapping == mapPspecToOnshapeVariables(pspec)
    IN  /\ mapIn # Absent
        /\ mapOut = Absent
        /\ mapOut' = Some(mapping)
        /\ IF ~mapping.ok
           THEN /\ last' = Refusal("generate", "Onshape variables mapping failed.", mapping.errors)
                /\ cad' = cad
           ELSE /\ last' = Response("generate", TRUE, "", pspec.revision)
                /\ cad' = writeOnshapeMappingArtifacts(cad, pspec.revision, mapping.variables,
                                                       mapping.provenance)
        /\ UNCHANGED << clock, crgFiles, draft, meta, dibLatest, dibRev, pspecLatest, pspecRev, runs,
                        runArchive, procs, mapIn, mfgOut, client, oauth, overlap >>

InitMap ==
    /\ clock = 0
    /\ meta = initRunMeta(0)
    /\ NoFiles
    /\ last = Response("create", TRUE, "", 0)
    /\ procs = << >>
    /\ mapIn \in {Some(p) : p \in MapInputs}
    /\ mapOut = Absent
    /\ mfgOut = Absent
    /\ client = Absent
    /\ oauth = Absent
    /\ overlap = FALSE

NextMap == MapAndWrite

SpecMap == InitMap /\ [][NextMap]_vars

-----------------------------------------------------------------------------
(* The manufacturability validator on its own: a PSPEC is handed to                *)
(* validatePspecManufacturability and the generate route's handling of the result   *)
(* follows (route.ts, lines 48-69).                                                 *)

OverallDepths == {Num(45000), Num(35500), Num(30000), Num(2500), Num(2000)}
BackClearances == {Num(2500), Num(0)}
SpeakerDepths == {Num(25000), Num(40500), Num(40600)}
AmplifierDepths == {Num(35000), Num(60000)}
TurntableDepths == {Num(37000), Num(60000)}
DrawerCounts == {Num(0), Num(200)}

MfgInputs ==
    { [BasePspec EXCEPT !.f["/overall/depth_mm"] = od,
                        !.f["/constraints/back_clearance_mm"] = bc,
                        !.f["/components/speakers/external_mm/depth_mm"] = sd,
                        !.f["/components/amplifier/external_mm/depth_mm"] = ad,
                        !.f["/components/turntable/external_mm/depth_mm"] = td,
                        !.f["/components/drawers/count"] = dc] :
        od \in OverallDepths, bc \in BackClearances, sd \in SpeakerDepths,
        ad \in AmplifierDepths, td \in TurntableDepths, dc \in DrawerCounts }

\* const manuf = validatePspecManufacturability(pspec); if (!manuf.ok) return 400;
\* const mapping = mapPspecToOnshapeVariables(pspec); if (!mapping.ok) return 400; ...
ValidateAndMap ==
    LET pspec == mapIn[1]
        manuf == validatePspecManufacturability(pspec)
        mapping == mapPspecToOnshapeVariables(pspec)
    IN  /\ mapIn # Absent
        /\ mfgOut = Absent
        /\ mfgOut' = Some(manuf)
        /\ IF ~manuf.ok
           THEN /\ last' = Refusal("generate", "PSPEC failed manufacturability validation.",
                                   manuf.errors)
                /\ UNCHANGED << mapOut, cad >>
           ELSE /\ mapOut' = Some(mapping)
                /\ IF ~mapping.ok
                   THEN /\ last' = Refusal("generate", "Onshape variables mapping failed.",
                                           mapping.errors)
                        /\ cad' = cad
                   ELSE /\ last' = Response("generate", TRUE, "", pspec.revision)
                        /\ cad' = writeOnshapeMappingArtifacts(cad, pspec.revision,
                                       mapping.variables, mapping.provenance)
        /\ UNCHANGED << clock, crgFiles, draft, meta, dibLatest, dibRev, pspecLatest, pspecRev, runs,
                        runArchive, procs, mapIn, client, oauth, overlap >>

InitMfg ==
    /\ clock = 0
    /\ meta = initRunMeta(0)
    /\ NoFiles
    /\ last = Response("create", TRUE, "", 0)
    /\ procs = << >>
    /\ mapIn \in {Some(p) : p \in MfgInputs}
    /\ mapOut = Absent
    /\ mfgOut = Absent
    /\ client = Absent
    /\ oauth = Absent
    /\ overlap = FALSE

NextMfg == ValidateAndMap

SpecMfg == InitMfg /\ [][NextMfg]_vars

-----------------------------------------------------------------------------
(* The confirm route on drafts of every shape: a draft is on disk, whatever the     *)
(* client saved, and POST /dib/confirm validates it (part_003, lines 102-133).      *)

\* Values an answer of a saved draft may hold
AnswerValues ==
    {Undef, Null, Bool(TRUE), Bool(FALSE), Str(""), Str("abc"), Str("other"), Str("300"),
     Num(-100), Num(0), Num(50), Num(100), Num(150), Num(600), Num(700),
     Num(50000), Num(50100), Num(200000), Num(200100), Num(300000), Num(300100),
     Num(1000000), Num(1000100)}

\* Two answers changed together: a question and the answer it depends on
DependentPairs ==
    { With(With(DraftBase, "/material/type", t), "/material/notes", n) :
        t \in {Str("other"), Str("mdf")}, n \in {Undef, Str("birch"), Num(100)} }
    \cup { With(With(DraftBase, "/drawers/count", c), "/drawers/lp_capacity_target", t) :
        c \in {Undef, Num(0), Num(50), Num(100), Num(600)},
        t \in {Undef, Str("12"), Num(-100), Num(12000), Num(12050), Num(300100)} }
    \cup { With(With(DraftBase, "/overall/depth_mm", od), "/constraints/back_clearance_mm", bc) :
        od \in {Num(100), Num(2500), Num(45000), Str("300")},
        bc \in {Num(0), Num(2500), Num(2600), Num(45000), Num(200100)} }

DibInputs ==
    {EmptyDraft}
    \cup { With(DraftBase, p, v) : p \in DraftPaths, v \in AnswerValues }
    \cup DependentPairs

InitDib ==
    /\ clock = 0
    /\ meta = initRunMeta(0)
    /\ crgFiles = NoCrgFiles
    /\ draft \in {Some(d) : d \in DibInputs}
    /\ dibLatest = Absent
    /\ dibRev = [r \in DibRevs |-> Absent]
    /\ pspecLatest = Absent
    /\ pspecRev = [r \in PspecRevs |-> Absent]
    /\ cad = [r \in PspecRevs |-> Absent]
    /\ runs = [r \in PspecRevs |-> Absent]
    /\ runArchive = {}
    /\ last = Response("draft", TRUE, "", 0)
    /\ procs = << >>
    /\ mapIn = Absent
    /\ mapOut = Absent
    /\ mfgOut = Absent
    /\ client = Absent
    /\ oauth = Absent
    /\ overlap = FALSE

NextDib == ConfirmDib

SpecDib == InitDib /\ [][NextDib]_vars

-----------------------------------------------------------------------------
(* Requests in flight together. A handler runs from one await to the next without   *)
(* interruption; every read or write of a project file is an await. The two files   *)
(* a directory receives from one call (pspec.json and its summary, the variables    *)
(* and the provenance) are held by one variable and written in one step.            *)

Procs == {1, 2}

\* The revisions followed while requests interleave
MaxConcRev == 1

Idle == [pc |-> "idle", now |-> 0, meta |-> Absent, d |-> Absent, dib |-> Absent,
         pspec |-> Absent]

others == << clock, crgFiles, runs, runArchive, mapIn, mapOut, mfgOut, client, oauth >>

Respond(p, response) ==
    /\ procs' = [procs EXCEPT ![p] = Idle]
    /\ last' = response

\* dib/confirm/route.ts: readDibDraft, validateDibDraft
ConfirmReadDraft(p) ==
    LET d == IF draft = Absent THEN EmptyDraft ELSE draft[1]
    IN  /\ procs[p].pc = "idle"
        /\ meta.dib.latest_revision < MaxConcRev
        /\ IF Len(validateDibDraft(d)) > 0
           THEN Respond(p, Refusal("confirm", "DIB is incomplete or invalid.", validateDibDraft(d)))
           ELSE /\ procs' = [procs EXCEPT ![p] = [Idle EXCEPT !.pc = "confirm_meta",
                                                                !.d = Some(d)]]
                /\ last' = last
        /\ UNCHANGED << meta, files, others >>
        /\ overlap' = (overlap \/ \E q \in Procs \ {p} : procs[q].pc # "idle")

\* new Date(), readRunMeta, toDibV0_1
ConfirmReadMeta(p) ==
    LET revision == meta.dib.latest_revision + 1
    IN  /\ procs[p].pc = "confirm_meta"
        /\ meta.dib.latest_revision < MaxConcRev
        /\ procs' = [procs EXCEPT ![p] =
                        [@ EXCEPT !.pc = "confirm_rev", !.now = clock, !.meta = Some(meta),
                                  !.dib = Some(toDibV0_1(revision, clock, procs[p].d[1]))]]
        /\ UNCHANGED << meta, files, last, others, overlap >>

\* writeDibRevision: dib/rev-NNNN/dib.json
ConfirmWriteRev(p) ==
    LET dib == procs[p].dib[1]
    IN  /\ procs[p].pc = "confirm_rev"
        /\ dibRev' = [dibRev EXCEPT ![dib.revision] = Some(DibText(dib))]
        /\ procs' = [procs EXCEPT ![p].pc = "confirm_latest"]
        /\ UNCHANGED << meta, draft, dibLatest, pspecLatest, pspecRev, cad, last, others, overlap >>

\* writeDibRevision: dib/dib.json
ConfirmWriteLatest(p) ==
    /\ procs[p].pc = "confirm_latest"
    /\ dibLatest' = Some(DibText(procs[p].dib[1]))
    /\ procs' = [procs EXCEPT ![p].pc = "confirm_ledger"]
    /\ UNCHANGED << meta, draft, dibRev, pspecLatest, pspecRev, cad, last, others, overlap >>

\* the ledger update on the copy read earlier, writeRunMeta, the response
ConfirmWriteLedger(p) ==
    LET dib == procs[p].dib[1]
    IN  /\ procs[p].pc = "confirm_ledger"
        /\ meta' = ConfirmLedger(procs[p].meta[1], dib.revision, sha256Hex(DibText(dib)),
                                 procs[p].now)
        /\ Respond(p, Response("confirm", TRUE, "", dib.revision))
        /\ UNCHANGED << files, others, overlap >>

\* pspec/generate/route.ts: readRunMeta and the two checks on it
GenerateReadMeta(p) ==
    /\ procs[p].pc = "idle"
    /\ meta.pspec.latest_revision < MaxConcRev
    /\ IF meta.crg = Absent
       THEN Respond(p, Response("generate", FALSE, "Upload a CRG file first.", 0))
       ELSE IF meta.dib.latest_revision < 1
       THEN Respond(p, Response("generate", FALSE, "Confirm the DIB first.", 0))
       ELSE /\ procs' = [procs EXCEPT ![p] = [Idle EXCEPT !.pc = "generate_dib",
                                                            !.meta = Some(meta)]]
            /\ last' = last
    /\ UNCHANGED << meta, files, others >>
    /\ overlap' = (overlap \/ \E q \in Procs \ {p} : procs[q].pc # "idle")

\* readLatestDib, new Date(), generatePspecV0_1, the two validators and the mapper
GenerateReadDib(p) ==
    LET m == procs[p].meta[1]
        dib == dibLatest[1]
        pspec == generatePspecV0_1(m.pspec.latest_revision + 1, clock, m.crg[1], dib,
                                   sha256Hex(DibText(dib)))
        manuf == validatePspecManufacturability(pspec)
        mapping == mapPspecToOnshapeVariables(pspec)
        fail(error) == Respond(p, Response("generate", FALSE, error, 0))
    IN  /\ procs[p].pc = "generate_dib"
        /\ IF dibLatest = Absent THEN fail("Missing dib.json.")
           ELSE IF validatePspecAgainstSchema(pspec) # {}
                THEN fail("PSPEC failed schema validation.")
           ELSE IF ~manuf.ok
                THEN Respond(p, Refusal("generate", "PSPEC failed manufacturability validation.",
                                        manuf.errors))
           ELSE IF ~mapping.ok
                THEN Respond(p, Refusal("generate", "Onshape variables mapping failed.",
                                        mapping.errors))
           ELSE /\ procs' = [procs EXCEPT ![p] =
                                [@ EXCEPT !.pc = "generate_rev", !.now = clock,
                                          !.dib = Some(dib), !.pspec = Some(pspec)]]
                /\ last' = last
        /\ UNCHANGED << meta, files, others, overlap >>

\* writePspecRevision: pspec/rev-NNNN/pspec.json and pspec.summary.md
GenerateWriteRev(p) ==
    LET pspec == procs[p].pspec[1]
    IN  /\ procs[p].pc = "generate_rev"
        /\ pspecRev' = [pspecRev EXCEPT ![pspec.revision] =
                           Some([pspec |-> PspecText(pspec),
                                 summary |-> pspecSummaryMarkdown(pspec)])]
        /\ procs' = [procs EXCEPT ![p].pc = "generate_latest"]
        /\ UNCHANGED << meta, draft, dibLatest, dibRev, pspecLatest, cad, last, others, overlap >>

\* writePspecRevision: pspec/pspec.json and pspec.summary.md
GenerateWriteLatest(p) ==
    LET pspec == procs[p].pspec[1]
    IN  /\ procs[p].pc = "generate_latest"
        /\ pspecLatest' = Some([pspec |-> PspecText(pspec),
                                summary |-> pspecSummaryMarkdown(pspec)])
        /\ procs' = [procs EXCEPT ![p].pc = "generate_cad"]
        /\ UNCHANGED << meta, draft, dibLatest, dibRev, pspecRev, cad, last, others, overlap >>

\* writeOnshapeMappingArtifacts
GenerateWriteCad(p) ==
    LET pspec == procs[p].pspec[1]
        mapping == mapPspecToOnshapeVariables(pspec)
    IN  /\ procs[p].pc = "generate_cad"
        /\ cad' = writeOnshapeMappingArtifacts(cad, pspec.revision, mapping.variables,
                                               mapping.provenance)
        /\ procs' = [procs EXCEPT ![p].pc = "generate_ledger"]
        /\ UNCHANGED << meta, draft, dibLatest, dibRev, pspecLatest, pspecRev, last, others, overlap >>

\* A ledger update made on the ledger as it is on disk at the time of the write
GenerateWriteLedgerFresh(p) ==
    LET pspec == procs[p].pspec[1]
        dib == procs[p].dib[1]
    IN  /\ procs[p].pc = "generate_ledger"
        /\ meta' = GenerateLedger(meta, pspec.revision,
                                  sha256Hex(PspecText(pspec)),
                                  sha256Hex(pspecSummaryMarkdown(pspec)), procs[p].now, dib,
                                  sha256Hex(DibText(dib)))
        /\ Respond(p, Response("generate", TRUE, "", pspec.revision))
        /\ UNCHANGED << files, others, overlap >>

\* the ledger update on the copy read earlier, writeRunMeta, the response
GenerateWriteLedger(p) ==
    LET pspec == procs[p].pspec[1]
        dib == procs[p].dib[1]
    IN  /\ procs[p].pc = "generate_ledger"
        /\ meta' = GenerateLedger(procs[p].meta[1], pspec.revision,
                                  sha256Hex(PspecText(pspec)),
                                  sha256Hex(pspecSummaryMarkdown(pspec)), procs[p].now, dib,
                                  sha256Hex(DibText(dib)))
        /\ Respond(p, Response("generate", TRUE, "", pspec.revision))
        /\ UNCHANGED << files, others, overlap >>

\* pspec/approve/route.ts: readRunMeta, the check on it, new Date()
ApproveReadMeta(p) ==
    /\ procs[p].pc = "idle"
    /\ IF meta.pspec.latest_revision < 1
       THEN Respond(p, Response("approve", FALSE, "No PSPEC to approve.", 0))
       ELSE /\ procs' = [procs EXCEPT ![p] = [Idle EXCEPT !.pc = "approve_ledger",
                                                            !.now = clock, !.meta = Some(meta)]]
            /\ last' = last
    /\ overlap' = (overlap \/ \E q \in Procs \ {p} : procs[q].pc # "idle")
    /\ UNCHANGED << meta, files, others >>

\* the approval on the copy read earlier, writeRunMeta, the response
ApproveWriteLedger(p) ==
    /\ procs[p].pc = "approve_ledger"
    /\ meta' = ApproveLedger(procs[p].meta[1], procs[p].now)
    /\ Respond(p, Response("approve", TRUE, "", procs[p].meta[1].pspec.latest_revision))
    /\ UNCHANGED << files, others, overlap >>

\* The CRG file uploaded while other requests are in flight
SecondUpload == [name |-> "console.obj", bytes |-> 5, content |-> "B"]

\* ingestCrg: atomicWriteFile(crg/<original file name>, bytes)
UploadWriteFile(p) ==
    /\ procs[p].pc = "idle"
    /\ SecondUpload.name \notin DOMAIN crgFiles
    /\ crgFiles' = writeCrgFile(crgFiles, SecondUpload)
    /\ procs' = [procs EXCEPT ![p] = [Idle EXCEPT !.pc = "upload_meta"]]
    /\ overlap' = (overlap \/ \E q \in Procs \ {p} : procs[q].pc # "idle")
    /\ UNCHANGED << clock, meta, draft, dibLatest, dibRev, pspecLatest, pspecRev, cad, runs,
                    runArchive, last, mapIn, mapOut, mfgOut, client, oauth >>

\* ingestCrg: new Date(), readRunMeta
UploadReadMeta(p) ==
    /\ procs[p].pc = "upload_meta"
    /\ procs' = [procs EXCEPT ![p] = [@ EXCEPT !.pc = "upload_ledger", !.now = clock,
                                               !.meta = Some(meta)]]
    /\ UNCHANGED << meta, files, last, others, overlap >>

\* ingestCrg: meta.crg on the copy read earlier, writeRunMeta
UploadWriteLedger(p) ==
    /\ procs[p].pc = "upload_ledger"
    /\ meta' = IngestLedger(procs[p].meta[1], SecondUpload, procs[p].now)
    /\ Respond(p, Response("crg", TRUE, "", 0))
    /\ UNCHANGED << files, others, overlap >>

TickConc ==
    /\ clock < MaxClock
    /\ clock' = clock + 1
    /\ UNCHANGED << meta, files, last, procs, mapIn, mapOut, mfgOut, client, oauth, overlap >>

\* A project with its CRG uploaded and a draft saved, and no request in flight
InitConc ==
    /\ clock = 0
    /\ meta = IngestLedger(initRunMeta(0), CHOOSE f \in CrgUploads : f.name = "console.glb", 0)
    /\ crgFiles = writeCrgFile(NoCrgFiles, CHOOSE f \in CrgUploads : f.name = "console.glb")
    /\ draft = Some(DraftBase)
    /\ dibLatest = Absent
    /\ dibRev = [r \in DibRevs |-> Absent]
    /\ pspecLatest = Absent
    /\ pspecRev = [r \in PspecRevs |-> Absent]
    /\ cad = [r \in PspecRevs |-> Absent]
    /\ runs = [r \in PspecRevs |-> Absent]
    /\ runArchive = {}
    /\ last = Response("draft", TRUE, "", 0)
    /\ procs = [p \in Procs |-> Idle]
    /\ mapIn = Absent
    /\ mapOut = Absent
    /\ mfgOut = Absent
    /\ client = Absent
    /\ oauth = Absent
    /\ overlap = FALSE

NextConc ==
    \/ \E p \in Procs : ConfirmReadDraft(p)
    \/ \E p \in Procs : ConfirmReadMeta(p)
    \/ \E p \in Procs : ConfirmWriteRev(p)
    \/ \E p \in Procs : ConfirmWriteLatest(p)
    \/ \E p \in Procs : ConfirmWriteLedger(p)
    \/ \E p \in Procs : GenerateReadMeta(p)
    \/ \E p \in Procs : GenerateReadDib(p)
    \/ \E p \in Procs : GenerateWriteRev(p)
    \/ \E p \in Procs : GenerateWriteLatest(p)
    \/ \E p \in Procs : GenerateWriteCad(p)
    \/ \E p \in Procs : GenerateWriteLedger(p)
    \/ \E p \in Procs : ApproveReadMeta(p)
    \/ \E p \in Procs : ApproveWriteLedger(p)
    \/ \E p \in Procs : UploadWriteFile(p)
    \/ \E p \in Procs : UploadReadMeta(p)
    \/ \E p \in Procs : UploadWriteLedger(p)
    \/ TickConc

SpecConc == InitConc /\ [][NextConc]_vars

-----------------------------------------------------------------------------
(* Properties of the mapper *)

NoMappingArtifacts == cad = [r \in PspecRevs |-> Absent]

\* Some row of the contract table is refused for the PSPEC handed in
SomeRowFails == \E i \in 1..Len(MappingRows) : ~MapRow(mapIn[1].f, MappingRows[i]).ok
SomeRowMaps == \E i \in 1..Len(MappingRows) : MapRow(mapIn[1].f, MappingRows[i]).ok

\* C8: all-or-nothing mapping. When any field the mapper checks is refused (missing,
\* not finite, not an integer, out of range, unknown enum value) the result is
\* {ok: false, contract_version, errors} with no variables and no provenance, and the
\* generate route answers with the failure and writes no mapping artifact.
AllOrNothingMapping ==
    (mapOut # Absent /\ SomeRowFails) =>
        /\ mapOut[1].ok = FALSE
        /\ DOMAIN mapOut[1] = {"ok", "contract_version", "errors"}
        /\ Len(mapOut[1].errors) >= 1
        /\ ~last.ok
        /\ NoMappingArtifacts

\* A refused field next to fields that would have mapped, after the route has answered
AllOrNothingWitness ==
    /\ mapOut # Absent
    /\ SomeRowFails
    /\ SomeRowMaps
    /\ mapOut[1].ok = FALSE
    /\ last.op = "generate"

\* The list a mapping result carries: provenance on success, errors on failure
ResultList(r) == IF r.ok THEN r.provenance ELSE r.errors

SortedByVar(list) ==
    \A i \in 1..(Len(list) - 1) : localeCompareLess(list[i].var, list[i + 1].var)

ReverseRows == [i \in 1..Len(MappingRows) |-> MappingRows[Len(MappingRows) + 1 - i]]

\* C9: the mapping result carries its provenance list (on success) or its error list
\* (on failure) sorted by variable name, and the whole result is the same when the
\* fields are checked in the opposite order.
MappingOrderIndependent ==
    mapOut # Absent =>
        /\ SortedByVar(ResultList(mapOut[1]))
        /\ mapOut[1] = MapInOrder(mapIn[1], ReverseRows)

\* Two errors found in an order that is not the order of their variable names
MappingOrderWitness ==
    /\ mapOut # Absent
    /\ ~mapOut[1].ok
    /\ Len(mapOut[1].errors) = 2
    /\ mapIn[1].f["/overall/width_mm"] = Undef
    /\ mapIn[1].f["/material/thickness_mm"] = NaN
    /\ mapOut[1].errors[1].var = "MAT_THICKNESS"
    /\ mapOut[1].errors[2].var = "OVERALL_W"

\* The rows that hold a dimension read from one PSPEC field
DimensionalRows == {i \in 1..Len(MappingRows) : MappingRows[i].kind = "mm"}

\* n is v (in hundredths) rounded to the nearest integer, ties up
IsRoundHalfUp(n, v) == 100 * n - 50 <= v /\ v < 100 * n + 50

RoundedOf(v) == CHOOSE n \in ((v \div 100) - 1)..((v \div 100) + 1) : IsRoundHalfUp(n, v)

\* C10: rounding law. For every dimensional field with a finite value v, a successful
\* mapping holds round(v), ties rounded up, as the variable; and when round(v) is
\* outside the variable's [min, max] the mapping fails with OUT_OF_RANGE for that
\* variable: the value is never clamped.
RoundingLaw ==
    mapOut # Absent =>
        \A i \in DimensionalRows :
            LET row == MappingRows[i]
                v == mapIn[1].f[row.pspecPath]
            IN  isFiniteNumber(v) =>
                    LET n == RoundedOf(v.n)
                    IN  /\ mapOut[1].ok => mapOut[1].variables[row.var] = n
                        /\ (n < row.range.min \/ n > row.range.max) =>
                              /\ ~mapOut[1].ok
                              /\ \E k \in 1..Len(mapOut[1].errors) :
                                    /\ mapOut[1].errors[k].var = row.var
                                    /\ mapOut[1].errors[k].code = "OUT_OF_RANGE"

\* 100.5 mm of speaker width is mapped to 101
RoundingWitness ==
    /\ mapOut # Absent
    /\ mapOut[1].ok
    /\ mapIn[1].f["/components/speakers/external_mm/width_mm"] = Num(10050)
    /\ mapOut[1].variables["SPK_L_W"] = 101

\* The enumerated fields: variable, PSPEC pointer and the values with a code
EnumFields ==
    { [var |-> "MAT_TYPE_CODE", pspecPath |-> "/material/type",
       known |-> {"plywood", "mdf", "veneer_plywood", "other"}],
      [var |-> "AMP_VENT_DIR_CODE", pspecPath |-> "/components/amplifier/ventilation_direction",
       known |-> {"front", "rear", "up", "left", "right"}] }

InCodeTable(v, e) == v.k = "str" /\ v.s \in e.known

\* C12: an enumerated field (material.type, amplifier.ventilation_direction) whose
\* value is not in its code table makes the mapping fail with an INVALID_VALUE error
\* that names MAT_TYPE_CODE or AMP_VENT_DIR_CODE and the field's PSPEC pointer; the
\* result then holds no variables, so no default code stands in for the value.
UnknownEnumRefused ==
    mapOut # Absent =>
        \A e \in EnumFields :
            ~InCodeTable(mapIn[1].f[e.pspecPath], e) =>
                /\ ~mapOut[1].ok
                /\ "variables" \notin DOMAIN mapOut[1]
                /\ \E k \in 1..Len(mapOut[1].errors) :
                      /\ mapOut[1].errors[k].code = "INVALID_VALUE"
                      /\ mapOut[1].errors[k].var = e.var
                      /\ mapOut[1].errors[k].pspecPath = e.pspecPath

\* material.type = "bamboo" has been refused
UnknownEnumWitness ==
    /\ mapOut # Absent
    /\ mapIn[1].f["/material/type"] = Str("bamboo")
    /\ ~mapOut[1].ok
    /\ Len(mapOut[1].errors) = 1
    /\ mapOut[1].errors[1].var = "MAT_TYPE_CODE"
    /\ mapOut[1].errors[1].code = "INVALID_VALUE"

\* C11: derived-depth identity. On every PSPEC the mapper accepts,
\* OVERALL_AVAILABLE_DEPTH = OVERALL_D - OVERALL_BACK_CLEARANCE, the two on the right
\* being the rounded variables of the same result, and OVERALL_AVAILABLE_DEPTH > 0.
DerivedDepthIdentity ==
    (mapOut # Absent /\ mapOut[1].ok) =>
        /\ mapOut[1].variables["OVERALL_AVAILABLE_DEPTH"] =
              mapOut[1].variables["OVERALL_D"] - mapOut[1].variables["OVERALL_BACK_CLEARANCE"]
        /\ mapOut[1].variables["OVERALL_AVAILABLE_DEPTH"] > 0

-----------------------------------------------------------------------------
(* Properties of the manufacturability validator *)

Components == {"speakers", "amplifier", "turntable"}

\* The quantities of the depth rule, in hundredths of a millimetre
DepthAvailable(pspec) ==
    pspec.f["/overall/depth_mm"].n - pspec.f["/constraints/back_clearance_mm"].n
DepthNeeded(pspec, c) ==
    pspec.f["/components/" \o c \o "/external_mm/depth_mm"].n
    + pspec.f["/components/" \o c \o "/clearance_mm/front_mm"].n
    + pspec.f["/components/" \o c \o "/clearance_mm/rear_mm"].n
MinLpDrawerDepth == 33000

\* The rules of the depth check, each by its own condition. A component is measured
\* against the available depth once that depth is positive.
DepthRuleBroken(pspec) == ~(DepthAvailable(pspec) > 0)
ComponentRuleBroken(pspec, c) ==
    DepthAvailable(pspec) > 0 /\ ~(DepthNeeded(pspec, c) <= DepthAvailable(pspec))
DrawerRuleBroken(pspec) ==
    ~(pspec.f["/components/drawers/count"].n = 0 \/ DepthAvailable(pspec) >= MinLpDrawerDepth)

BrokenRuleCount(pspec) ==
    (IF DepthRuleBroken(pspec) THEN 1 ELSE 0)
    + Cardinality({c \in Components : ComponentRuleBroken(pspec, c)})
    + (IF DrawerRuleBroken(pspec) THEN 1 ELSE 0)

ErrorsOf(result) == IF result.ok THEN << >> ELSE result.errors
ErrorSet(result) == {ErrorsOf(result)[i] : i \in 1..Len(ErrorsOf(result))}

ComponentError ==
    [speakers |-> "Speakers exceed available depth.",
     amplifier |-> "Amplifier exceeds available depth.",
     turntable |-> "Turntable exceeds available depth."]
DepthError == "overall.depth_mm must exceed constraints.back_clearance_mm."
DrawerError == "Drawers requested, but available depth is less than minimum LP drawer depth."

\* C13: manufacturability depth rule. validatePspecManufacturability answers ok:true
\* exactly when the available depth (overall depth minus back clearance) is strictly
\* positive, each of speakers, amplifier and turntable needs no more than it (depth
\* plus front and rear clearance), and there are no drawers or at least 330 mm are
\* available; otherwise it answers ok:false with one error per violated rule, at most
\* one per component.
DepthRuleExact ==
    mfgOut # Absent =>
        LET pspec == mapIn[1]
            result == mfgOut[1]
        IN  /\ result.ok <=> BrokenRuleCount(pspec) = 0
            /\ Len(ErrorsOf(result)) = BrokenRuleCount(pspec)
            /\ Cardinality(ErrorSet(result)) = Len(ErrorsOf(result))

\* C14: the manufacturability checks are not short-circuited. In one call each of the
\* available-depth error, the three component errors and the LP-drawer error is
\* reported whenever its own condition holds, whatever the other checks found.
ChecksNotShortCircuited ==
    mfgOut # Absent =>
        LET pspec == mapIn[1]
            reported == ErrorSet(mfgOut[1])
        IN  /\ DepthRuleBroken(pspec) => DepthError \in reported
            /\ \A c \in Components : ComponentRuleBroken(pspec, c) => ComponentError[c] \in reported
            /\ (pspec.f["/components/drawers/count"].n > 0
                  /\ DepthAvailable(pspec) < MinLpDrawerDepth) => DrawerError \in reported

-----------------------------------------------------------------------------
(* Properties of the DIB validator *)

\* The draft the confirm route validates
SavedDraft == IF draft = Absent THEN EmptyDraft ELSE draft[1]

Answer(d, path) == IF path \in DOMAIN d THEN d[path] ELSE Undef

\* The dependency condition of a question: none, equality, or a number >= the bound
DependencyHolds(q, d) ==
    \/ q.depends_on.type = "none"
    \/ /\ q.depends_on.type = "equals"
       /\ Answer(d, q.depends_on.path) = q.depends_on.equals
    \/ /\ q.depends_on.type = "gte"
       /\ Answer(d, q.depends_on.path).k = "num"
       /\ Answer(d, q.depends_on.path).n >= q.depends_on.gte

\* The value has the kind the question declares
HasDeclaredKind(q, v) ==
    \/ q.kind = "confirm" /\ v = Bool(TRUE)
    \/ q.kind = "boolean" /\ v.k = "bool"
    \/ q.kind = "enum" /\ v.k = "str" /\ v.s \in q.options
    \/ q.kind = "integer" /\ v.k = "num" /\ v.n % 100 = 0
    \/ q.kind \in {"number", "number_mm"} /\ v.k = "num"
    \/ q.kind = "text" /\ v.k = "str"

\* Something is wrong with the answer to q: missing though required, of another
\* kind, or a number outside [min, max]
AnswerRefused(q, d) ==
    LET v == Answer(d, q.store_path)
    IN  \/ q.required /\ v = Undef
        \/ v # Undef /\ ~HasDeclaredKind(q, v)
        \/ v.k = "num" /\ q.hasRange /\ (v.n < q.min \/ v.n > q.max)

ErrorPaths(errors) == {errors[i].path : i \in 1..Len(errors)}

\* C15: validateDibDraft answers incomplete input with the full list of errors. For
\* every question whose dependency condition holds it reports an error at the
\* question's store path when a required answer is missing, when the value is not of
\* the declared kind, or when a number is below min or above max; a question whose
\* dependency condition does not hold contributes no error; the confirmation goes
\* through only when no question is refused.
ValidationListsEveryError ==
    last.op = "confirm" =>
        \A i \in 1..Len(dibQuestionSetV0_1) :
            LET q == dibQuestionSetV0_1[i]
            IN  /\ (DependencyHolds(q, SavedDraft) /\ AnswerRefused(q, SavedDraft))
                      => (~last.ok /\ q.store_path \in ErrorPaths(last.errors))
                /\ ~DependencyHolds(q, SavedDraft) => q.store_path \notin ErrorPaths(last.errors)

\* A confirmation refused with several errors at once while a dependent question
\* (the LP capacity target, drawers not answered) is left out
ValidationListWitness ==
    /\ last.op = "confirm"
    /\ ~last.ok
    /\ SavedDraft = EmptyDraft
    /\ Cardinality(ErrorPaths(last.errors)) > 2
    /\ "/drawers/lp_capacity_target" \notin ErrorPaths(last.errors)

BackClearancePath == "/constraints/back_clearance_mm"
OverallDepthPath == "/overall/depth_mm"

\* Both answers are numbers and the back clearance is not below the depth
ClearanceNotBelowDepth(d) ==
    /\ Answer(d, BackClearancePath).k = "num"
    /\ Answer(d, OverallDepthPath).k = "num"
    /\ ~(Answer(d, BackClearancePath).n < Answer(d, OverallDepthPath).n)

CrossFieldError == [path |-> BackClearancePath, message |-> "Must be less than overall depth."]

\* C16: cross-field rule. A confirmation of a draft whose back clearance is not
\* strictly less than its overall depth is refused with an error of its own at
\* /constraints/back_clearance_mm, and every DIB revision the ledger records has a
\* back clearance strictly less than its overall depth.
BackClearanceBelowDepth ==
    /\ (last.op = "confirm" /\ ClearanceNotBelowDepth(SavedDraft)) =>
          (~last.ok /\ \E i \in 1..Len(last.errors) : last.errors[i] = CrossFieldError)
    /\ \A i \in 1..Len(meta.dib.revisions) :
          LET r == meta.dib.revisions[i].revision
          IN  /\ dibRev[r] # Absent
              /\ dibRev[r][1].f[BackClearancePath].k = "num"
              /\ dibRev[r][1].f[OverallDepthPath].k = "num"
              /\ dibRev[r][1].f[BackClearancePath].n < dibRev[r][1].f[OverallDepthPath].n

\* Back clearance equal to the depth, both within their ranges: the cross-field
\* error is the only one
BackClearanceWitness ==
    /\ last.op = "confirm"
    /\ ~last.ok
    /\ Answer(SavedDraft, BackClearancePath) = Answer(SavedDraft, OverallDepthPath)
    /\ last.errors = << CrossFieldError >>
    /\ meta.dib.revisions = << >>

-----------------------------------------------------------------------------
(* Properties of the ledger under requests handled one at a time *)

\* C17: no partial persistence on a failed generation. A generation request that is
\* refused (no CRG, no confirmed DIB, schema, manufacturability or mapping failure)
\* writes no PSPEC revision file, no latest PSPEC or summary and no mapping artifact,
\* and leaves the ledger's PSPEC part (latest_revision, revisions, approval) as it was.
FailedGenerationWritesNothing ==
    [][ (last'.op = "generate" /\ ~last'.ok) =>
            /\ pspecRev' = pspecRev
            /\ pspecLatest' = pspecLatest
            /\ cad' = cad
            /\ meta'.pspec = meta.pspec ]_vars

\* A generation refused by the mapper after an earlier revision had been generated
FailedGenerationWitness ==
    /\ last.op = "generate"
    /\ ~last.ok
    /\ last.error = "Onshape variables mapping failed."
    /\ Len(last.errors) > 0
    /\ meta.pspec.latest_revision = 1
    /\ pspecRev[1] # Absent
    /\ pspecRev[2] = Absent

\* C18: validation errors block only confirmation. A confirmation refused for
\* validation errors returns the error list and changes nothing (no DIB revision file,
\* the ledger's dib.latest_revision, revision list and approval pointer as they were);
\* saving a draft is refused only for a payload that is no object, never for
\* validation errors, and never changes revisions or the approval pointer.
ValidationBlocksOnlyConfirm ==
    [][ /\ (last'.op = "confirm" /\ ~last'.ok) =>
              /\ Len(last'.errors) > 0
              /\ dibRev' = dibRev
              /\ dibLatest' = dibLatest
              /\ meta' = meta
        /\ last'.op = "draft" =>
              /\ ~last'.ok => (last'.error = "Invalid draft payload." /\ last'.errors = << >>)
              /\ dibRev' = dibRev
              /\ dibLatest' = dibLatest
              /\ meta' = meta ]_vars

\* A draft with validation errors is on disk over a confirmed and approved project,
\* and its confirmation has been refused
ValidationBlocksWitness ==
    /\ last.op = "confirm"
    /\ ~last.ok
    /\ Len(last.errors) > 0
    /\ draft # Absent
    /\ Len(validateDibDraft(draft[1])) > 0
    /\ meta.dib.latest_revision = 1
    /\ dibRev[1] # Absent
    /\ meta.pspec.approval.state = "approved"

\* The steps that advance a revision counter of the ledger
ConfirmStep == meta'.dib.latest_revision # meta.dib.latest_revision
GenerateStep == meta'.pspec.latest_revision # meta.pspec.latest_revision

ApprovedEntries(m) ==
    {i \in 1..Len(m.pspec.revisions) : m.pspec.revisions[i].approval.state = "approved"}

\* C1: approval reset. Where some PSPEC revision r has been approved, a successful DIB
\* confirmation sets the project's approval pointer to {state: none, revision: null},
\* whatever the pointer read before, and r's own record still reads approved.
ConfirmResetsPointer ==
    [][(ConfirmStep /\ ApprovedEntries(meta) # {}) =>
          /\ meta'.pspec.approval.state = "none"
          /\ meta'.pspec.approval.revision = Absent
          /\ \A i \in ApprovedEntries(meta) :
                meta'.pspec.revisions[i] = meta.pspec.revisions[i]]_vars

\* A confirmation has just succeeded on a project with an approved PSPEC revision
ConfirmResetsPointerWitness ==
    /\ last.op = "confirm"
    /\ last.ok
    /\ last.revision = 2
    /\ ApprovedEntries(meta) # {}
    /\ meta.pspec.approval.state = "none"

\* C2: approval is terminal for a revision. Once a PSPEC revision's own record reads
\* approved, no later request (approve, generation, confirmation) changes the state or
\* the decided_at of that record.
ApprovedRecordNeverChanges ==
    [][\A i \in ApprovedEntries(meta) :
          /\ i <= Len(meta'.pspec.revisions)
          /\ meta'.pspec.revisions[i].approval = meta.pspec.revisions[i].approval]_vars

PointerState(m) == m.pspec.approval.state

\* C3: the project's approval state becomes pending only through a successful PSPEC
\* generation, approved or rejected only from pending, and none only through a DIB
\* confirmation.
PointerFollowsStateMachine ==
    [][PointerState(meta') # PointerState(meta) =>
          /\ PointerState(meta') = "pending" => GenerateStep
          /\ PointerState(meta') \in {"approved", "rejected"} =>
                PointerState(meta) = "pending"
          /\ PointerState(meta') = "none" => ConfirmStep]_vars

\* C4: a successful generation of revision n sets the project's approval pointer to
\* {state: pending, revision: n} and appends revision n to the ledger with its own
\* approval record pending, whatever the pointer read before.
GenerationSetsPending ==
    [][GenerateStep =>
          LET n == meta'.pspec.latest_revision
          IN  /\ last' = Response("generate", TRUE, "", n)
              /\ meta'.pspec.approval =
                    [state |-> "pending", revision |-> Some(n), decided_at |-> Absent]
              /\ Len(meta'.pspec.revisions) = Len(meta.pspec.revisions) + 1
              /\ SubSeq(meta'.pspec.revisions, 1, Len(meta.pspec.revisions))
                    = meta.pspec.revisions
              /\ meta'.pspec.revisions[Len(meta'.pspec.revisions)].revision = n
              /\ meta'.pspec.revisions[Len(meta'.pspec.revisions)].approval =
                    [state |-> "pending", decided_at |-> Absent]]_vars

\* Revision 2 has just been generated while the pointer read approved for revision 1
GenerationSetsPendingWitness ==
    /\ last = Response("generate", TRUE, "", 2)
    /\ meta.pspec.approval.state = "pending"
    /\ meta.pspec.approval.revision = Some(2)
    /\ meta.pspec.revisions[1].approval.state = "approved"
    /\ meta.dib.latest_revision = 1

Gapless(list, latest) ==
    /\ Len(list) = latest
    /\ \A i \in 1..Len(list) : list[i].revision = i

\* C6: revision monotonicity. With requests handled one at a time the ledger's DIB and
\* PSPEC revision lists are exactly 1..latest_revision; a counter moves only by one,
\* only with a successful confirmation (generation) that answers with that number, and
\* the two counters move independently.
RevisionsGapless ==
    [][/\ Gapless(meta'.dib.revisions, meta'.dib.latest_revision)
       /\ Gapless(meta'.pspec.revisions, meta'.pspec.latest_revision)
       /\ ConfirmStep =>
             /\ meta'.dib.latest_revision = meta.dib.latest_revision + 1
             /\ last' = Response("confirm", TRUE, "", meta'.dib.latest_revision)
             /\ ~GenerateStep
       /\ GenerateStep =>
             /\ meta'.pspec.latest_revision = meta.pspec.latest_revision + 1
             /\ last' = Response("generate", TRUE, "", meta'.pspec.latest_revision)
             /\ ~ConfirmStep
       /\ ~last'.ok => (~ConfirmStep /\ ~GenerateStep)]_vars

\* A generation has failed after two confirmations and one generation
RevisionsGaplessWitness ==
    /\ last.op = "generate"
    /\ ~last.ok
    /\ meta.dib.latest_revision = 2
    /\ meta.pspec.latest_revision = 1
    /\ Len(meta.pspec.revisions) = 1
    /\ meta.pspec.revisions[1].dib_revision = 1

-----------------------------------------------------------------------------
(* Properties of the Onshape run and of the revision files *)

\* What the ledger says of PSPEC revision r
EntryState(m, r) ==
    LET i == FindRevision(m.pspec.revisions, r)
    IN  IF i = 0 THEN "unknown" ELSE m.pspec.revisions[i].approval.state

RunFiles(dir, archive, r) ==
    << IF r \in DOMAIN dir THEN dir[r] ELSE Absent, {a \in archive : a[1] = r} >>

\* An Onshape generate request has just been answered
OnshapeAnswered == last'.op = "onshape" /\ last' # last

\* C5: an Onshape run for PSPEC revision r is started only if r's own approval record
\* reads approved when the request arrives; for an unknown, pending or rejected
\* revision the request is refused and no run record is written or changed.
OnshapeOnlyWhenApproved ==
    [][/\ \A r \in 0..(MaxPspecRev + 1) :
             EntryState(meta, r) # "approved" =>
                RunFiles(runs', runArchive', r) = RunFiles(runs, runArchive, r)
       /\ (OnshapeAnswered /\ EntryState(meta, last'.revision) # "approved") =>
             /\ ~last'.ok
             /\ UNCHANGED << runs, runArchive >>]_vars

\* A request for the rejected revision 2 was refused; the approved revision 1 has a run
OnshapeOnlyWhenApprovedWitness ==
    /\ last.op = "onshape"
    /\ ~last.ok
    /\ last.revision = 2
    /\ EntryState(meta, 2) = "rejected"
    /\ runs[2] = Absent
    /\ EntryState(meta, 1) = "approved"
    /\ runs[1] # Absent

\* C7: revision immutability. Once dib/rev-N/dib.json or pspec/rev-N/pspec.json has
\* been written, no later step writes different content to it.
RevisionFilesImmutable ==
    [][/\ \A r \in DibRevs : dibRev[r] # Absent => dibRev'[r] = dibRev[r]
       /\ \A r \in PspecRevs : pspecRev[r] # Absent => pspecRev'[r] = pspecRev[r]]_vars

-----------------------------------------------------------------------------
(* Properties of requests in flight together *)

\* A generation that has read the ledger and the DIB and has files or ledger to write
GenerateWriting == {"generate_rev", "generate_latest", "generate_cad", "generate_ledger"}

\* Two generations in flight whose ledger copies hold the same latest revision
ReadTheSameLedger(p, q) ==
    /\ p # q
    /\ procs[p].pc \in GenerateWriting
    /\ procs[q].pc \in GenerateWriting
    /\ procs[p].meta[1].pspec.latest_revision = procs[q].meta[1].pspec.latest_revision

EntriesFor(m, n) == {i \in 1..Len(m.pspec.revisions) : m.pspec.revisions[i].revision = n}

\* C19: last writer wins on the ledger. Two generation requests that both read the
\* ledger before either writes it are given the same revision number n; each ledger
\* write replaces the ledger with the writer's own copy, so after it the ledger has
\* latest_revision = n and a single entry for n, the writer's, whatever the other
\* request wrote before; the files of revision n have been written.
LedgerLastWriterWins ==
    [][ /\ \A p, q \in Procs :
              ReadTheSameLedger(p, q) => procs[p].pspec[1].revision = procs[q].pspec[1].revision
        /\ \A p \in Procs :
              (procs[p].pc = "generate_ledger" /\ procs'[p].pc = "idle") =>
                  LET n == procs[p].pspec[1].revision
                  IN  /\ meta'.pspec.latest_revision = n
                      /\ Cardinality(EntriesFor(meta', n)) = 1
                      /\ \A i \in EntriesFor(meta', n) :
                             meta'.pspec.revisions[i].created_at = procs[p].now
                      /\ pspecRev[n] # Absent ]_vars

\* Both requests have finished: the ledger's one entry for revision 1 is the later
\* writer's, the revision's file is the other request's
LedgerRaceWitness ==
    /\ \A p \in Procs : procs[p].pc = "idle"
    /\ last.op = "generate"
    /\ last.ok
    /\ meta.pspec.latest_revision = 1
    /\ Cardinality(EntriesFor(meta, 1)) = 1
    /\ pspecRev[1] # Absent
    /\ pspecRev[1][1].pspec.created_at # meta.pspec.revisions[1].created_at

\* The revision a latest file holds, 0 when the file does not exist
LatestDibRevision == IF dibLatest = Absent THEN 0 ELSE dibLatest[1].revision
LatestPspecRevision == IF pspecLatest = Absent THEN 0 ELSE pspecLatest[1].pspec.revision

\* C20: the ledger and the latest files change together. At every point of a
\* confirmation or a generation, a reader finds dib/dib.json at the revision of the
\* ledger's dib.latest_revision and pspec/pspec.json at the revision of the ledger's
\* pspec.latest_revision.
LatestFilesMatchLedger ==
    /\ LatestDibRevision = meta.dib.latest_revision
    /\ LatestPspecRevision = meta.pspec.latest_revision

-----------------------------------------------------------------------------
(* Properties of the review stage *)

RejectedEntries(m) ==
    {i \in 1..Len(m.pspec.revisions) : m.pspec.revisions[i].approval.state = "rejected"}

\* C21: rejecting the latest PSPEC revision sets the project's approval pointer and
\* the revision's own record to rejected with the time of the decision; a later
\* successful generation of revision n+1 sets the pointer to {pending, n+1} and
\* leaves every rejected record rejected.
RejectedCanBeSuperseded ==
    [][ /\ (last'.op = "reject" /\ last'.ok /\ clock' = clock) =>
              LET n == meta.pspec.latest_revision
                  i == FindRevision(meta'.pspec.revisions, n)
              IN  /\ meta'.pspec.approval =
                        [state |-> "rejected", revision |-> Some(n), decided_at |-> Some(clock)]
                  /\ i # 0
                  /\ meta'.pspec.revisions[i].approval =
                        [state |-> "rejected", decided_at |-> Some(clock)]
        /\ (meta'.pspec.latest_revision # meta.pspec.latest_revision) =>
              /\ meta'.pspec.approval =
                    [state |-> "pending", revision |-> Some(meta.pspec.latest_revision + 1),
                     decided_at |-> Absent]
              /\ \A i \in RejectedEntries(meta) :
                    meta'.pspec.revisions[i] = meta.pspec.revisions[i] ]_vars

\* Revision 1 was rejected and revision 2 generated after it
RejectedSupersededWitness ==
    /\ meta.pspec.latest_revision = 2
    /\ meta.pspec.approval.state = "pending"
    /\ meta.pspec.approval.revision = Some(2)
    /\ 1 \in RejectedEntries(meta)

-----------------------------------------------------------------------------
(* The required variables of the Onshape template contract *)

ClearanceSuffixes == {"CLR_L", "CLR_R", "CLR_T", "CLR_B", "CLR_F", "CLR_REAR"}
ComponentPrefixes == {"SPK_L_", "SPK_R_", "TURNTABLE_", "AMP_"}

\* The required-variables table: name |-> declared range
RequiredVariables ==
    [name \in {"OVERALL_W", "OVERALL_H", "OVERALL_D"} |-> mmPos]
    @@ ("OVERALL_BACK_CLEARANCE" :> mmClr)
    @@ ("OVERALL_AVAILABLE_DEPTH" :> [min |-> 1, max |-> 10000])
    @@ ("MAT_THICKNESS" :> [min |-> 1, max |-> 2000])
    @@ [name \in {c \o d : c \in ComponentPrefixes, d \in {"W", "H", "D"}} |-> mmPos]
    @@ [name \in {c \o d : c \in ComponentPrefixes, d \in ClearanceSuffixes} |-> mmClr]
    @@ ("DRAWER_COUNT" :> [min |-> 0, max |-> 6])
    @@ ("DRAWER_LP_CAP_TARGET" :> [min |-> 0, max |-> 3000])
    @@ ("ACCESS_REAR_SERVICE_HATCH" :> [min |-> 0, max |-> 1])

ProvenanceOf(provenance, name) == {i \in 1..Len(provenance) : provenance[i].var = name}

\* C22: whenever the mapper returns ok:true, the variables map holds every required
\* variable of the contract table with an integer inside its declared range, each
\* SPK_L_* variable equals its SPK_R_* twin, and provenance holds exactly one entry
\* per variable, carrying the value of the map.
MappedVariablesMeetContract ==
    (mapOut # Absent /\ mapOut[1].ok) =>
        LET v == mapOut[1].variables
            p == mapOut[1].provenance
        IN  /\ \A name \in DOMAIN RequiredVariables :
                  /\ name \in DOMAIN v
                  /\ v[name] \in Int
                  /\ intInRange(v[name], RequiredVariables[name].min, RequiredVariables[name].max)
            /\ \A d \in {"W", "H", "D"} \cup ClearanceSuffixes :
                  v["SPK_L_" \o d] = v["SPK_R_" \o d]
            /\ Len(p) = Cardinality(DOMAIN v)
            /\ \A name \in DOMAIN v :
                  /\ Cardinality(ProvenanceOf(p, name)) = 1
                  /\ \A i \in ProvenanceOf(p, name) : p[i].value = v[name]

\* A PSPEC other than the base one was mapped, with values the mapper had to round
MappedVariablesWitness ==
    /\ mapOut # Absent
    /\ mapOut[1].ok
    /\ mapIn[1].f["/overall/depth_mm"] = Num(45050)
    /\ mapOut[1].variables["OVERALL_D"] = 451

-----------------------------------------------------------------------------
(* Synthesis *)

\* The DIB sections a PSPEC repeats under the same pointer
SectionPaths ==
    {"/overall/" \o x : x \in Dims}
    \cup {"/material/type", "/material/thickness_mm", "/material/notes",
          "/constraints/back_clearance_mm", "/access/rear_service_hatch"}

\* The DIB sections a PSPEC repeats under /components
ComponentPaths ==
    {"/" \o c \o "/external_mm/" \o x : c \in {"speakers", "turntable", "amplifier"}, x \in Dims}
    \cup {"/drawers/count", "/drawers/lp_capacity_target"}

ClearanceOf(pspec, component) ==
    {pspec.f["/components/" \o component \o "/clearance_mm/" \o x] : x \in Sides}

\* C23: a generated PSPEC has the DIB's speakers.required_clearance_mm on all six
\* sides of the speakers' clearance, the DIB's amplifier.required_clearance_mm on all
\* six sides of the amplifier's, 0 on all six sides of the turntable's; overall,
\* material, constraints, access, external dimensions and drawer counts are those of
\* the DIB; and the DIB is left as it was.
SynthesisCopiesTheDib ==
    [][ (meta'.pspec.latest_revision # meta.pspec.latest_revision) =>
            LET dib == dibLatest[1]
                pspec == pspecLatest'[1].pspec
            IN  /\ ClearanceOf(pspec, "speakers") = {dib.f["/speakers/required_clearance_mm"]}
                /\ ClearanceOf(pspec, "amplifier") = {dib.f["/amplifier/required_clearance_mm"]}
                /\ ClearanceOf(pspec, "turntable") = {Num(0)}
                /\ \A p \in SectionPaths : pspec.f[p] = dib.f[p]
                /\ \A p \in ComponentPaths : pspec.f["/components" \o p] = dib.f[p]
                /\ pspec = pspecRev'[pspec.revision][1].pspec
                /\ dibLatest' = dibLatest
                /\ dibRev' = dibRev ]_vars

\* A PSPEC was generated from a DIB whose two required clearances differ
SynthesisWitness ==
    /\ last.op = "generate"
    /\ last.ok
    /\ pspecLatest # Absent
    /\ ClearanceOf(pspecLatest[1].pspec, "speakers") = {Num(1000)}
    /\ ClearanceOf(pspecLatest[1].pspec, "amplifier") = {Num(2000)}
    /\ dibLatest[1].f["/speakers/required_clearance_mm"] = Num(1000)

-----------------------------------------------------------------------------
(* Lineage *)

HasDibEntry(m, revision, sha) ==
    \E i \in 1..Len(m.dib.revisions) :
        /\ m.dib.revisions[i].revision = revision
        /\ m.dib.revisions[i].sha256 = sha

-----------------------------------------------------------------------------
(* cad/onshapeClient.ts: one call of OnshapeClient.request, step by step *)

ACCESS_TOKEN_REFRESH_SKEW_MS == 30000

\* Milliseconds from Date.now() to the stored token's expires_at
TokenLifetimes == {3600000, 60000, 30000, 0}

\* What readOnshapeTokenRecord returns when request is called
TokenRecords ==
    {Absent} \cup {Some([access_token |-> 0, refresh_token |-> "r0", expires_in |-> t]) :
                      t \in TokenLifetimes}

\* opts.retryOnUnauthorized
RetryOptions == {Undef, Bool(TRUE), Bool(FALSE)}

\* Response statuses the Onshape API answers with
Statuses == {200, 204, 400, 401, 403, 404, 500}
IsOkStatus(status) == status >= 200 /\ status <= 299

\* The token endpoint's answer to a refresh
RefreshOutcomes == {"ok", "http_error", "bad_payload"}

NewRequest(token, retry) ==
    [pc |-> "ensure", attempt |-> 1, token |-> token, retryOnUnauthorized |-> retry,
     accessToken |-> -1, log |-> << >>, result |-> "none", status |-> 0]

Throw(c, name, status) == [c EXCEPT !.pc = "done", !.result = name, !.status = status]

\* ensureAccessToken(forceRefresh): forceRefresh is true on the second attempt only
EnsureAccessToken ==
    LET forceRefresh == client.attempt = 2
        token == client.token
        mustRefresh == forceRefresh \/ ACCESS_TOKEN_REFRESH_SKEW_MS >= token[1].expires_in
    IN  /\ client # Absent
        /\ client.pc = "ensure"
        /\ client' = IF token = Absent THEN Throw(client, "Error", 0)
                     ELSE IF ~mustRefresh
                          THEN [client EXCEPT !.pc = "fetch", !.accessToken = token[1].access_token]
                          ELSE [client EXCEPT !.pc = "refresh"]
        /\ UNCHANGED << clock, meta, files, last, procs, mapIn, mapOut, mfgOut, oauth, overlap >>

\* refreshAccessToken: POST /oauth/token, then writeOnshapeTokenRecord
RefreshAccessToken(outcome) ==
    LET sent == Append(client.log, [e |-> "refresh", forced |-> client.attempt = 2,
                                    token |-> -1, status |-> 0])
        fresh == client.token[1].access_token + 1
    IN  /\ client # Absent
        /\ client.pc = "refresh"
        /\ client' = IF outcome = "ok"
                     THEN [client EXCEPT !.pc = "fetch", !.log = sent, !.accessToken = fresh,
                                         !.token = Some([access_token |-> fresh,
                                                         refresh_token |-> "r0",
                                                         expires_in |-> 60000])]
                     ELSE Throw([client EXCEPT !.log = sent], "Error", 0)
        /\ UNCHANGED << clock, meta, files, last, procs, mapIn, mapOut, mfgOut, oauth, overlap >>

\* A request that tries again after any refused first attempt
DoFetchRetryingAll(status) ==
    LET sent == [client EXCEPT !.log = Append(@, [e |-> "send", forced |-> FALSE,
                                                  token |-> client.accessToken,
                                                  status |-> status])]
    IN  /\ client # Absent
        /\ client.pc = "fetch"
        /\ client' = IF client.attempt = 1 /\ ~IsOkStatus(status)
                        /\ client.retryOnUnauthorized # Bool(FALSE)
                     THEN [sent EXCEPT !.pc = "ensure", !.attempt = 2]
                     ELSE IF ~IsOkStatus(status) THEN Throw(sent, "OnshapeApiError", status)
                     ELSE [sent EXCEPT !.pc = "done", !.result = "ok", !.status = status]
        /\ UNCHANGED << clock, meta, files, last, procs, mapIn, mapOut, mfgOut, oauth, overlap >>
\* res = await doFetch(accessToken), and what request does with res
DoFetch(status) ==
    LET sent == [client EXCEPT !.log = Append(@, [e |-> "send", forced |-> FALSE,
                                                  token |-> client.accessToken,
                                                  status |-> status])]
    IN  /\ client # Absent
        /\ client.pc = "fetch"
        /\ client' = IF client.attempt = 1 /\ status = 401
                        /\ client.retryOnUnauthorized # Bool(FALSE)
                     THEN [sent EXCEPT !.pc = "ensure", !.attempt = 2]
                     ELSE IF ~IsOkStatus(status) THEN Throw(sent, "OnshapeApiError", status)
                     ELSE [sent EXCEPT !.pc = "done", !.result = "ok", !.status = status]
        /\ UNCHANGED << clock, meta, files, last, procs, mapIn, mapOut, mfgOut, oauth, overlap >>

InitReq ==
    /\ clock = 0
    /\ meta = initRunMeta(0)
    /\ NoFiles
    /\ last = Response("create", TRUE, "", 0)
    /\ procs = << >>
    /\ mapIn = Absent
    /\ mapOut = Absent
    /\ mfgOut = Absent
    /\ client \in {NewRequest(token, retry) : token \in TokenRecords, retry \in RetryOptions}
    /\ oauth = Absent
    /\ overlap = FALSE

NextReq ==
    \/ EnsureAccessToken
    \/ \E outcome \in RefreshOutcomes : RefreshAccessToken(outcome)
    \/ \E status \in Statuses : DoFetch(status)

SpecReq == InitReq /\ [][NextReq]_vars

Sends(log) == {i \in 1..Len(log) : log[i].e = "send"}
ForcedRefreshes(log) == {i \in 1..Len(log) : log[i].e = "refresh" /\ log[i].forced}
FirstSend(log) == CHOOSE i \in Sends(log) : \A j \in Sends(log) : i <= j
LastSend(log) == CHOOSE i \in Sends(log) : \A j \in Sends(log) : j <= i
RetryAllowed(c) ==
    c.log[FirstSend(c.log)].status = 401 /\ c.retryOnUnauthorized # Bool(FALSE)

\* C25: request sends the HTTP request at most twice; a second attempt is sent only
\* when the first response was 401 and retryOnUnauthorized is not false, and only
\* after a forced credential refresh; any other non-OK first response, and any
\* non-OK second response, ends the call at once with OnshapeApiError.
RetryOnceOnUnauthorized ==
    LET log == client.log
        sends == Sends(log)
    IN  /\ Cardinality(sends) <= 2
        /\ Cardinality(sends) = 2 =>
              /\ RetryAllowed(client)
              /\ \E r \in ForcedRefreshes(log) : FirstSend(log) < r /\ r < LastSend(log)
        /\ (sends # {} /\ ~IsOkStatus(log[FirstSend(log)].status) /\ ~RetryAllowed(client)) =>
              /\ Cardinality(sends) = 1
              /\ client.pc = "done"
              /\ client.result = "OnshapeApiError"
              /\ client.status = log[FirstSend(log)].status
        /\ (Cardinality(sends) = 2 /\ ~IsOkStatus(log[LastSend(log)].status)) =>
              /\ client.pc = "done"
              /\ client.result = "OnshapeApiError"
              /\ client.status = log[LastSend(log)].status

\* A 401, a forced refresh, a second attempt, and that one refused too
RetryWitness ==
    /\ Cardinality(Sends(client.log)) = 2
    /\ client.log[FirstSend(client.log)].status = 401
    /\ client.log[LastSend(client.log)].status = 401
    /\ client.log[LastSend(client.log)].token # client.log[FirstSend(client.log)].token
    /\ client.result = "OnshapeApiError"

-----------------------------------------------------------------------------
(* The approval pointer and the records *)

\* C26: with requests handled one at a time, a project approval pointer whose state
\* is not none names pspec.latest_revision, that revision has a ledger entry, and
\* the entry's own approval state is the pointer's; a pointer whose state is none
\* has a null revision.
ApprovalPointerConsistent ==
    LET pointer == meta.pspec.approval
        i == FindRevision(meta.pspec.revisions, meta.pspec.latest_revision)
    IN  IF pointer.state = "none"
        THEN pointer.revision = Absent
        ELSE /\ pointer.revision = Some(meta.pspec.latest_revision)
             /\ i # 0
             /\ meta.pspec.revisions[i].approval.state = pointer.state

\* Revision 2 approved after a confirmation had reset the pointer
ApprovalPointerWitness ==
    /\ meta.pspec.approval.state = "approved"
    /\ meta.pspec.latest_revision = 2
    /\ meta.dib.latest_revision = 2
    /\ meta.pspec.revisions[2].dib_revision = 1
    /\ meta.pspec.revisions[1].approval.state = "pending"

-----------------------------------------------------------------------------
(* Confirmed DIBs and the stages after them *)

\* The PSPEC the generate route synthesizes from the DIB on disk
SynthesizedPspec ==
    generatePspecV0_1(meta.pspec.latest_revision + 1, clock, BaseCrg, dibLatest[1],
                      sha256Hex(DibText(dibLatest[1])))

\* C27: for every PSPEC synthesized from a confirmed DIB, if the manufacturability
\* validator returns ok:true then the mapper returns ok:true; in particular
\* OVERALL_AVAILABLE_DEPTH does not fail its range check.
ValidatorMapperAgreement ==
    (dibLatest # Absent /\ validatePspecManufacturability(SynthesizedPspec).ok) =>
        LET mapping == mapPspecToOnshapeVariables(SynthesizedPspec)
        IN  /\ mapping.ok
            /\ mapping.variables["OVERALL_AVAILABLE_DEPTH"] >= 1

NumericKinds == {"integer", "number", "number_mm"}

InDeclaredRange(q, v) ==
    /\ isFiniteNumber(v)
    /\ q.kind = "integer" => IsIntegerHundredths(v.n)
    /\ q.hasRange => (v.n >= q.min /\ v.n <= q.max)

\* C28: every DIB revision a successful confirmation wrote has each numeric field
\* finite and inside the range the question set declares for it, whether or not the
\* question applied; drawers.lp_capacity_target is an integer in 0..3000 also when
\* drawers.count is 0.
ConfirmedDibInRange ==
    \A r \in DibRevs :
        dibRev[r] # Absent =>
            \A i \in 1..Len(dibQuestionSetV0_1) :
                LET q == dibQuestionSetV0_1[i]
                IN  q.kind \in NumericKinds => InDeclaredRange(q, dibRev[r][1].f[q.store_path])

-----------------------------------------------------------------------------
(* Ledger updates of requests in flight together *)

EntriesKept(before, after) ==
    \A i \in 1..Len(before) : \E j \in 1..Len(after) : after[j] = before[i]

\* Approval is the one field of a PSPEC entry a later request may rewrite
PspecEntriesKept(before, after) ==
    \A i \in 1..Len(before) : \E j \in 1..Len(after) :
        [after[j] EXCEPT !.approval = before[i].approval] = before[i]

DibRevisionsListed(m) == {m.dib.revisions[i].revision : i \in 1..Len(m.dib.revisions)}

\* One step of the ledger loses nothing
NothingLost(before, after) ==
    /\ after.dib.latest_revision >= before.dib.latest_revision
    /\ after.pspec.latest_revision >= before.pspec.latest_revision
    /\ EntriesKept(before.dib.revisions, after.dib.revisions)
    /\ PspecEntriesKept(before.pspec.revisions, after.pspec.revisions)
    /\ \A i \in 1..Len(after.pspec.revisions) :
          after.pspec.revisions[i].dib_revision \in DibRevisionsListed(after)

\* C29 as stated: under any interleaving of confirm, generate, approve and upload
\* requests the ledger's latest revisions never decrease, no DIB or PSPEC entry
\* disappears from it, and every PSPEC entry's dib_revision names a DIB entry of
\* the ledger.
NoLostLedgerUpdates == [][NothingLost(meta, meta')]_vars

\* C29, amended: the same holds for as long as no two requests on the project have
\* been in flight together.
NoLostUpdatesWithoutOverlap == [][~overlap' => NothingLost(meta, meta')]_vars

\* Confirm, generate and approve have each written the ledger, one after the other
NoOverlapWitness ==
    /\ ~overlap
    /\ meta.dib.latest_revision = 1
    /\ meta.pspec.latest_revision = 1
    /\ meta.pspec.approval.state = "approved"
    /\ meta.crg[1].original_filename = SecondUpload.name

-----------------------------------------------------------------------------
(* onshape/oauth.ts and the OAuth callback route: sign-in starts (the pending state *)
(* is saved) and callbacks arrive; every file operation is an await, so callbacks   *)
(* in flight together interleave between them. The clock counts steps of 5 minutes. *)

STATE_TTL_MS == 600000

MaxOauthClock == 3
MaxSaves == 2
MaxCallbacks == 3

\* createOauthState(): a fresh random value for every sign-in
OauthState(n) == "state-" \o ToString(n)

\* What the callback's query carries as state: a saved value, another one, or none
QueryStates == {Some(OauthState(n)) : n \in 1..MaxSaves} \cup {Some("forged"), Absent}

\* A state file parsePendingState refuses
Unparsable == [state |-> "", created_at |-> -1]

NoCallback == [pc |-> "idle", state |-> "", pending |-> Absent]

\* Date.now() - createdAtMs > STATE_TTL_MS, the clock counting steps of 300000 ms
Expired(pending, now) == (now - pending.created_at) * 300000 > STATE_TTL_MS

Finish(p, state, result) ==
    [oauth EXCEPT !.cb[p] = NoCallback,
                  !.log = Append(@, [e |-> "callback", state |-> state, result |-> result])]

oauthOthers == << meta, files, last, procs, mapIn, mapOut, mfgOut, client >>

\* savePendingOauthState(createOauthState())
SavePendingOauthState ==
    /\ oauth # Absent
    /\ oauth.saves < MaxSaves
    /\ oauth' = [oauth EXCEPT !.saves = @ + 1,
                              !.stateFile = Some([state |-> OauthState(oauth.saves + 1),
                                                  created_at |-> clock]),
                              !.log = Append(@, [e |-> "save",
                                                 state |-> OauthState(oauth.saves + 1),
                                                 result |-> ""])]
    /\ UNCHANGED << clock, oauthOthers, overlap >>

\* GET: the checks on the query before consumePendingOauthState is called
CallbackStart(p, query) ==
    /\ oauth # Absent
    /\ oauth.cb[p].pc = "idle"
    /\ oauth.started < MaxCallbacks
    /\ oauth' = IF query = Absent
                THEN [Finish(p, "", "no state") EXCEPT !.started = @ + 1]
                ELSE [oauth EXCEPT !.started = @ + 1,
                                   !.cb[p] = [NoCallback EXCEPT !.pc = "exists",
                                                                !.state = query[1]]]
    /\ overlap' = (overlap \/ \E q \in Procs \ {p} : oauth.cb[q].pc # "idle")
    /\ UNCHANGED << clock, oauthOthers >>

\* if (!(await exists(STATE_PATH))) return missing
ConsumeExists(p) ==
    /\ oauth # Absent
    /\ oauth.cb[p].pc = "exists"
    /\ oauth' = IF oauth.stateFile = Absent
                THEN Finish(p, oauth.cb[p].state, "missing")
                ELSE [oauth EXCEPT !.cb[p].pc = "read"]
    /\ UNCHANGED << clock, oauthOthers, overlap >>

\* parsePendingState(await readJson(STATE_PATH)), then the checks up to the next await
ConsumeRead(p) ==
    LET file == oauth.stateFile
        state == oauth.cb[p].state
    IN  /\ oauth # Absent
        /\ oauth.cb[p].pc = "read"
        /\ oauth' = IF file = Absent \/ file = Some(Unparsable)
                    THEN [oauth EXCEPT !.cb[p].pc = "rm_invalid"]
                    ELSE IF Expired(file[1], clock)
                    THEN [oauth EXCEPT !.cb[p].pc = "rm_expired"]
                    ELSE IF file[1].state # state
                    THEN Finish(p, state, "mismatch")
                    ELSE [oauth EXCEPT !.cb[p].pc = "rm_ok", !.cb[p].pending = file]
        /\ UNCHANGED << clock, oauthOthers, overlap >>

\* await fs.rm(STATE_PATH, { force: true }) and the return after it
ConsumeRemove(p) ==
    LET pc == oauth.cb[p].pc
        state == oauth.cb[p].state
    IN  /\ oauth # Absent
        /\ pc \in {"rm_invalid", "rm_expired", "rm_ok"}
        /\ oauth' = [(IF pc = "rm_ok"
                      THEN [oauth EXCEPT !.cb[p].pc = "exchange",
                                         !.log = Append(@, [e |-> "consumed", state |-> state,
                                                            result |-> "ok"])]
                      ELSE Finish(p, state, IF pc = "rm_invalid" THEN "invalid" ELSE "expired"))
                     EXCEPT !.stateFile = Absent]
        /\ UNCHANGED << clock, oauthOthers, overlap >>

\* POST /oauth/token with the authorization code, then writeOnshapeTokenRecord
ExchangeCode(p, granted) ==
    LET state == oauth.cb[p].state
    IN  /\ oauth # Absent
        /\ oauth.cb[p].pc = "exchange"
        /\ oauth' = IF granted
                    THEN [Finish(p, state, "connected") EXCEPT !.tokenFile = Some(state)]
                    ELSE Finish(p, state, "exchange failed")
        /\ UNCHANGED << clock, oauthOthers, overlap >>

TickOauth ==
    /\ oauth # Absent
    /\ clock < MaxOauthClock
    /\ clock' = clock + 1
    /\ UNCHANGED << oauth, oauthOthers, overlap >>

InitOauth ==
    /\ clock = 0
    /\ meta = initRunMeta(0)
    /\ NoFiles
    /\ last = Response("create", TRUE, "", 0)
    /\ procs = << >>
    /\ mapIn = Absent
    /\ mapOut = Absent
    /\ mfgOut = Absent
    /\ client = Absent
    /\ oauth \in {[stateFile |-> f, tokenFile |-> Absent, saves |-> 0, started |-> 0,
                    cb |-> [p \in Procs |-> NoCallback], log |-> << >>] :
                      f \in {Absent, Some(Unparsable)}}
    /\ overlap = FALSE

NextOauth ==
    \/ SavePendingOauthState
    \/ \E p \in Procs, query \in QueryStates : CallbackStart(p, query)
    \/ \E p \in Procs : ConsumeExists(p)
    \/ \E p \in Procs : ConsumeRead(p)
    \/ \E p \in Procs : ConsumeRemove(p)
    \/ \E p \in Procs, granted \in BOOLEAN : ExchangeCode(p, granted)
    \/ TickOauth

SpecOauth == InitOauth /\ [][NextOauth]_vars

\* The consumes that accepted the state
Accepted(log, state) == {i \in 1..Len(log) : log[i].e = "consumed" /\ log[i].state = state}

\* Events after which the stored state is gone
Deleting(log) ==
    {i \in 1..Len(log) :
        \/ log[i].e = "consumed"
        \/ log[i].e = "callback" /\ log[i].result \in {"expired", "invalid"}}

\* The event at the end of the log found a stored state
FoundStoredState(log) ==
    /\ log[Len(log)].e \in {"consumed", "callback"}
    /\ log[Len(log)].result \in {"ok", "mismatch", "expired", "invalid"}

SavedSince(log, i) == \E j \in (i + 1)..Len(log) : log[j].e = "save"

\* C30: a saved state is accepted at most once; a successful consume, an expired
\* and an unparsable stored state each delete the stored state, and every callback
\* after that, a replay included, finds none until the next sign-in; a callback
\* with another value is refused as a mismatch and leaves the stored state in
\* place; no token is stored unless the consume succeeded.
OneTimeOauthState ==
    [][ oauth'.log # oauth.log =>
          LET log == oauth'.log
              event == log[Len(log)]
          IN  /\ \A n \in 1..MaxSaves : Cardinality(Accepted(log, OauthState(n))) <= 1
              /\ (Len(log) \in Deleting(log)) => oauth'.stateFile = Absent
              /\ FoundStoredState(log) =>
                    \A i \in Deleting(log) \ {Len(log)} : SavedSince(log, i)
              /\ (event.e = "callback" /\ event.result = "mismatch") =>
                    (oauth'.stateFile = oauth.stateFile /\ oauth.stateFile # Absent)
              /\ oauth'.tokenFile # oauth.tokenFile =>
                    Accepted(log, oauth'.tokenFile[1]) # {}
      ]_vars

====
